---- MODULE Spec2Model ----
(***************************************************************************)
(* Snapshot history and replay verification of the rx pixel editor         *)
(* (src/src/resources.rs).                                                 *)
(*                                                                         *)
(* Resources holds one ViewResources per view (a non-empty list of         *)
(* compressed snapshots, a cursor and a decompressed pixel cache) plus the *)
(* replay state (the queue of expected screen hashes and the hash verified *)
(* last).  Every method of the source is an operator computing the new     *)
(* value of the object it is called on; an action applies it to the table. *)
(***************************************************************************)
EXTENDS Integers, Sequences, FiniteSets, TLC

VARIABLES
    data,           \* Resources.data: ViewId -> ViewResources
    screens,        \* Resources.screens: queue of expected hashes
    last_verified,  \* Resources.last_verified: Option<Hash>
    ret,            \* the last call: its name, view, arguments and return value
    pushed,         \* history variable: per view, the raw buffers given to new/push, as the history should hold them
    max_id,         \* history variable: per view, the largest SnapshotId assigned so far
    saved,          \* history variable: per view, cursor and pixels seen just before each undo, by depth
    recorded,       \* history variable: the frames given to record_screen, in order
    replayed,       \* history variable: the frames given to verify_screen, in order
    outcomes,       \* history variable: the results verify_screen returned, in order
    appended,       \* history variable: the hashes load_screen and record_screen added to the queue, in order
    rwlock,         \* ResourceManager.resources: the RwLock, as the threads holding its read and write guards
    pc,             \* per thread, where it is in the call it is making
    pending,        \* per thread, the arguments of the call it is in the middle of
    committed,      \* history variable: the table as the last holder of the write guard left it
    mgr,            \* a ViewManager: active_id, views, next_id, lru
    issued,         \* history variable: the largest ViewId that ViewManager::add has returned, 0 before the first
    view,           \* a View, once View::new has made it
    brush,          \* a Brush
    disk            \* history variable: the image written by the last save the View recorded, None before

vars == <<data, screens, last_verified, ret, pushed, max_id, saved, recorded, replayed, outcomes,
          appended, rwlock, pc, pending, committed, mgr, issued, view, brush, disk>>
histVars == <<pushed, max_id, saved>>
replayVars == <<screens, last_verified>>
runVars == <<recorded, replayed, outcomes, appended>>
lockVars == <<rwlock, pc, pending, committed>>
uiVars == <<mgr, issued, view, brush, disk>>

----------------------------------------------------------------------------
(* Bounds of the model. *)

MaxViews == 1
MaxSnapshots == 4
MaxScreens == 3
MaxRun == 4
MaxExtra == 1
MaxThreads == 2

ViewIds == 1..MaxViews
Threads == 1..MaxThreads

----------------------------------------------------------------------------
(* Option<T>: None is the empty sequence, Some(x) the sequence of x. *)

None == <<>>
Some(x) == <<x>>

Min(a, b) == IF a < b THEN a ELSE b

----------------------------------------------------------------------------
(* Pixel buffers.  A raw buffer is a sequence of bytes, four per pixel in   *)
(* the order b, g, r, a.                                                    *)

Transparent == <<0, 0, 0, 0>>
Red == <<0, 0, 255, 255>>

\* vec![0; len]
Zeroes(len) == [i \in 1..len |-> 0]

\* Bgra8::align: the bytes reinterpreted as whole pixels.
Align(bytes) ==
    [i \in 1..(Len(bytes) \div 4) |->
        [b |-> bytes[4 * i - 3], g |-> bytes[4 * i - 2],
         r |-> bytes[4 * i - 1], a |-> bytes[4 * i]]]

----------------------------------------------------------------------------
(* Compressed<Box<[u8]>>.  The codec is a byte-oriented lossless encoder:   *)
(* a header with the uncompressed length, then (run length, byte) pairs.    *)

RECURSIVE RunLength(_)
RunLength(bytes) ==
    IF Len(bytes) <= 1 THEN Len(bytes)
    ELSE IF bytes[2] = bytes[1] THEN 1 + RunLength(Tail(bytes))
    ELSE 1

RECURSIVE Runs(_)
Runs(bytes) ==
    IF bytes = <<>> THEN <<>>
    ELSE LET n == RunLength(bytes)
         IN <<n, bytes[1]>> \o Runs(SubSeq(bytes, n + 1, Len(bytes)))

\* Compressed::from
Compress(input) == <<Len(input)>> \o Runs(input)

RECURSIVE Expand(_)
Expand(runs) ==
    IF Len(runs) < 2 THEN <<>>
    ELSE [i \in 1..runs[1] |-> runs[2]] \o Expand(SubSeq(runs, 3, Len(runs)))

\* A decoder that takes the length header for the first run.
Decompress_header(c) == Expand(c)

\* Compressed::decompress
Decompress(c) == Expand(Tail(c))

----------------------------------------------------------------------------
(* Snapshot *)

\* A snapshot that records the size of the compressed bytes.
Snapshot_new_compressed(id, pixels, fw, fh, nframes) ==
    [id |-> id, fw |-> fw, fh |-> fh, nframes |-> nframes,
     size |-> Len(Compress(pixels)), pixels |-> Compress(pixels)]

\* Snapshot::new
Snapshot_new(id, pixels, fw, fh, nframes) ==
    [id |-> id, fw |-> fw, fh |-> fh, nframes |-> nframes,
     size |-> Len(pixels), pixels |-> Compress(pixels)]

\* Snapshot::pixels
Snapshot_pixels(s) == Align(Decompress(s.pixels))

----------------------------------------------------------------------------
(* NonEmpty<Snapshot>: indices are 0-based as in the source. *)

\* NonEmpty::get
Get(s, i) == IF i >= 0 /\ i < Len(s) THEN Some(s[i + 1]) ELSE None

\* NonEmpty::truncate
Truncate(s, len) == SubSeq(s, 1, Min(len, Len(s)))

----------------------------------------------------------------------------
(* ViewResources *)

\* ViewResources::new
ViewResources_new(pixels, fw, fh) ==
    [snapshots |-> <<Snapshot_new(0, pixels, fw, fh, 1)>>,
     snapshot |-> 0,
     pixels |-> Align(pixels)]

\* ViewResources::current_snapshot: the pair, or a panic when the cursor
\* names no snapshot.
current_snapshot(vr) ==
    LET s == Get(vr.snapshots, vr.snapshot)
    IN IF s = None THEN [panic |-> TRUE, val |-> None]
       ELSE [panic |-> FALSE, val |-> <<s[1], vr.pixels>>]

\* A push that appends without clearing the list forward.
push_snapshot_keep(vr, pixels, fw, fh, nframes) ==
    [snapshots |-> Append(vr.snapshots,
                          Snapshot_new(vr.snapshot + 1, pixels, fw, fh, nframes)),
     snapshot |-> vr.snapshot + 1,
     pixels |-> Align(pixels)]

\* A push that stores the snapshot and leaves the pixel cache alone.
push_snapshot_stale(vr, pixels, fw, fh, nframes) ==
    LET cut == IF vr.snapshot # Len(vr.snapshots) - 1
               THEN Truncate(vr.snapshots, vr.snapshot + 1)
               ELSE vr.snapshots
    IN [snapshots |-> Append(cut, Snapshot_new(Len(cut), pixels, fw, fh, nframes)),
        snapshot |-> Len(cut),
        pixels |-> vr.pixels]

\* A push that numbers the snapshot by the count before the list was cleared
\* forward.
push_snapshot_count(vr, pixels, fw, fh, nframes) ==
    LET cut == IF vr.snapshot # Len(vr.snapshots) - 1
               THEN Truncate(vr.snapshots, vr.snapshot + 1)
               ELSE vr.snapshots
    IN [snapshots |-> Append(cut, Snapshot_new(Len(vr.snapshots), pixels, fw, fh, nframes)),
        snapshot |-> Len(cut),
        pixels |-> Align(pixels)]

\* ViewResources::push_snapshot
push_snapshot(vr, pixels, fw, fh, nframes) ==
    LET cut == IF vr.snapshot # Len(vr.snapshots) - 1
               THEN LET t == Truncate(vr.snapshots, vr.snapshot + 1)
                    IN [vr EXCEPT !.snapshots = t, !.snapshot = Len(t) - 1]
               ELSE vr
        next == cut.snapshot + 1
    IN [snapshots |-> Append(cut.snapshots,
                             Snapshot_new(next, pixels, fw, fh, nframes)),
        snapshot |-> next,
        pixels |-> Align(pixels)]

\* An undo that hands back the first snapshot when there is nothing to undo.
prev_snapshot_first(vr) ==
    LET s == Get(vr.snapshots, IF vr.snapshot = 0 THEN 0 ELSE vr.snapshot - 1)
    IN IF s = None THEN [vr |-> vr, val |-> None]
       ELSE [vr |-> [vr EXCEPT !.snapshot = IF vr.snapshot = 0 THEN 0 ELSE vr.snapshot - 1,
                               !.pixels = Snapshot_pixels(s[1])],
             val |-> s]

\* An undo that drops the snapshot it steps back from.
prev_snapshot_pop(vr) ==
    IF vr.snapshot = 0 THEN [vr |-> vr, val |-> None]
    ELSE LET s == Get(vr.snapshots, vr.snapshot - 1)
         IN IF s = None THEN [vr |-> vr, val |-> None]
            ELSE [vr |-> [snapshots |-> Truncate(vr.snapshots, vr.snapshot),
                          snapshot |-> vr.snapshot - 1,
                          pixels |-> Snapshot_pixels(s[1])],
                  val |-> s]

\* An undo that moves the cursor and leaves the pixel cache alone.
prev_snapshot_stale(vr) ==
    IF vr.snapshot = 0 THEN [vr |-> vr, val |-> None]
    ELSE LET s == Get(vr.snapshots, vr.snapshot - 1)
         IN IF s = None THEN [vr |-> vr, val |-> None]
            ELSE [vr |-> [vr EXCEPT !.snapshot = vr.snapshot - 1], val |-> s]

\* ViewResources::prev_snapshot
prev_snapshot(vr) ==
    IF vr.snapshot = 0 THEN [vr |-> vr, val |-> None]
    ELSE LET s == Get(vr.snapshots, vr.snapshot - 1)
         IN IF s = None THEN [vr |-> vr, val |-> None]
            ELSE [vr |-> [vr EXCEPT !.snapshot = vr.snapshot - 1,
                                    !.pixels = Snapshot_pixels(s[1])],
                  val |-> s]

\* A redo that looks up the current index instead of the next one.
next_snapshot_off(vr) ==
    LET s == Get(vr.snapshots, vr.snapshot)
    IN IF s = None THEN [vr |-> vr, val |-> None]
       ELSE [vr |-> [vr EXCEPT !.snapshot = vr.snapshot + 1,
                               !.pixels = Snapshot_pixels(s[1])],
             val |-> s]

\* ViewResources::next_snapshot
next_snapshot(vr) ==
    LET s == Get(vr.snapshots, vr.snapshot + 1)
    IN IF s = None THEN [vr |-> vr, val |-> None]
       ELSE [vr |-> [vr EXCEPT !.snapshot = vr.snapshot + 1,
                               !.pixels = Snapshot_pixels(s[1])],
             val |-> s]

----------------------------------------------------------------------------
(* Hash: four bytes, the prefix of a longer digest of the frame's bytes.    *)
(* The digest is a checksum here: deterministic, fixed width, and, like any *)
(* four-byte digest, not injective.                                         *)

RECURSIVE Sum(_)
Sum(bytes) == IF bytes = <<>> THEN 0 ELSE bytes[1] + Sum(Tail(bytes))

\* Resources::hash
hash(bytes) ==
    LET d == Sum(bytes)
        n == Len(bytes)
    IN <<d % 256, (d \div 256) % 256, n % 256, (n \div 256) % 256>>

\* VerifyResult
Stale(h) == <<"Stale", h>>
Okay(h) == <<"Okay", h>>
Failure(actual, expected) == <<"Failure", actual, expected>>
EOF == <<"EOF">>

----------------------------------------------------------------------------
(* Resources: the replay state. *)

\* A loader that puts the hash at the front of the queue.
load_screen_front(s, h) == <<h>> \o s

\* Resources::load_screen
load_screen(s, h) == Append(s, h)

\* A recorder that compares with the front of the queue.
record_screen_front(s, bytes) ==
    LET h == hash(bytes)
    IN IF (IF s = <<>> THEN TRUE ELSE s[1] # h) THEN Append(s, h) ELSE s

\* A recorder that never collapses repeated frames.
record_screen_all(s, bytes) == Append(s, hash(bytes))

\* Resources::record_screen
record_screen(s, bytes) ==
    LET h == hash(bytes)
    IN IF (IF s = <<>> THEN TRUE ELSE s[Len(s)] # h) THEN Append(s, h) ELSE s

\* A verifier that reports a failure with expected and actual swapped.
verify_screen_swapped(s, lv, bytes) ==
    LET actual == hash(bytes)
    IN IF Some(actual) = lv
       THEN [screens |-> s, last_verified |-> lv, val |-> Stale(actual)]
       ELSE IF s # <<>>
            THEN [screens |-> Tail(s), last_verified |-> Some(actual),
                  val |-> IF actual = Head(s) THEN Okay(actual)
                          ELSE Failure(Head(s), actual)]
            ELSE [screens |-> s, last_verified |-> Some(actual), val |-> EOF]

\* A verifier that takes the expected hash before it tests for staleness.
verify_screen_eager(s, lv, bytes) ==
    LET actual == hash(bytes)
    IN IF Some(actual) = lv
       THEN [screens |-> IF s = <<>> THEN s ELSE Tail(s),
             last_verified |-> lv, val |-> Stale(actual)]
       ELSE IF s # <<>>
            THEN [screens |-> Tail(s), last_verified |-> Some(actual),
                  val |-> IF actual = Head(s) THEN Okay(actual)
                          ELSE Failure(actual, Head(s))]
            ELSE [screens |-> s, last_verified |-> Some(actual), val |-> EOF]

\* A verifier that leaves a mismatched expected hash in the queue.
verify_screen_peek(s, lv, bytes) ==
    LET actual == hash(bytes)
    IN IF Some(actual) = lv
       THEN [screens |-> s, last_verified |-> lv, val |-> Stale(actual)]
       ELSE IF s # <<>>
            THEN [screens |-> IF actual = Head(s) THEN Tail(s) ELSE s,
                  last_verified |-> Some(actual),
                  val |-> IF actual = Head(s) THEN Okay(actual)
                          ELSE Failure(actual, Head(s))]
            ELSE [screens |-> s, last_verified |-> Some(actual), val |-> EOF]

\* A verifier that remembers only the hashes it found as expected.
verify_screen_okay_only(s, lv, bytes) ==
    LET actual == hash(bytes)
    IN IF Some(actual) = lv
       THEN [screens |-> s, last_verified |-> lv, val |-> Stale(actual)]
       ELSE IF s # <<>>
            THEN [screens |-> Tail(s),
                  last_verified |-> IF actual = Head(s) THEN Some(actual) ELSE lv,
                  val |-> IF actual = Head(s) THEN Okay(actual)
                          ELSE Failure(actual, Head(s))]
            ELSE [screens |-> s, last_verified |-> lv, val |-> EOF]

\* Resources::verify_screen, on the queue s and the last verified hash lv
verify_screen(s, lv, bytes) ==
    LET actual == hash(bytes)
    IN IF Some(actual) = lv
       THEN [screens |-> s, last_verified |-> lv, val |-> Stale(actual)]
       ELSE IF s # <<>>
            THEN [screens |-> Tail(s), last_verified |-> Some(actual),
                  val |-> IF actual = Head(s) THEN Okay(actual)
                          ELSE Failure(actual, Head(s))]
            ELSE [screens |-> s, last_verified |-> Some(actual), val |-> EOF]

----------------------------------------------------------------------------
(* Resources / ResourceManager: the table of views. *)

NoViews == [id \in {} |-> None]

Insert(f, id, x) == [k \in DOMAIN f \cup {id} |-> IF k = id THEN x ELSE f[k]]

Remove(f, id) == [k \in DOMAIN f \ {id} |-> f[k]]

\* ResourceManager::add_view
add_view(d, id, fw, fh, pixels) == Insert(d, id, ViewResources_new(pixels, fw, fh))

\* A blank view with one byte per pixel.
add_blank_view_short(d, id, w, h) == add_view(d, id, w, h, Zeroes(w * h))

\* ResourceManager::add_blank_view
add_blank_view(d, id, w, h) == add_view(d, id, w, h, Zeroes(w * h * 4))

\* A removal that takes the lowest view of the table.
remove_view_first(d, id) ==
    IF DOMAIN d = {} THEN d
    ELSE Remove(d, CHOOSE k \in DOMAIN d : \A j \in DOMAIN d : k <= j)

\* ResourceManager::remove_view
remove_view(d, id) == Remove(d, id)

\* Resources::get_snapshot: the current pair of view id, or a panic.
get_snapshot(d, id) ==
    IF id \notin DOMAIN d
    THEN [panic |-> TRUE, val |-> None]
    ELSE current_snapshot(d[id])

\* ViewResources::current_snapshot_mut
current_snapshot_mut(vr) == current_snapshot(vr)

\* Resources::get_snapshot_mut: the current pair of view id, or a panic.
get_snapshot_mut(d, id) ==
    IF id \notin DOMAIN d
    THEN [panic |-> TRUE, val |-> None]
    ELSE current_snapshot_mut(d[id])

\* Resources::get_view_mut: the history of view id, if the table has it.
get_view_mut(d, id) == IF id \in DOMAIN d THEN Some(d[id]) ELSE None

----------------------------------------------------------------------------
(* ViewManager and Brush as they are constructed. *)

\* ViewManager::new
ViewManager_new ==
    [active_id |-> 0, next_id |-> 1, views |-> NoViews, lru |-> <<>>]

\* Point2::new
Point2(x, y) == [x |-> x, y |-> y]

\* Brush::default.  The color is Rgba8::TRANSPARENT.
Brush_default ==
    [size |-> 1, state |-> <<"NotDrawing">>, stroke |-> <<>>,
     color |-> Transparent, modes |-> {}, curr |-> Point2(0, 0), prev |-> Point2(0, 0)]

----------------------------------------------------------------------------
(* Inputs. *)

\* add_view(id, fw, fh, pixels)
ViewInputs == {[fw |-> 1, fh |-> 1, pixels |-> Red]}

\* add_blank_view(id, w, h)
BlankInputs == {[w |-> 1, h |-> 1]}

\* push_snapshot(pixels, fw, fh, nframes)
PushInputs ==
    {[pixels |-> Transparent, fw |-> 1, fh |-> 1, nframes |-> 1],
     [pixels |-> Red \o Transparent, fw |-> 1, fh |-> 1, nframes |-> 2]}

\* Rendered frames.  FrameD has the hash of FrameC.
FrameA == <<10, 0, 0, 255>>
FrameB == <<0, 20, 0, 255>>
FrameC == <<0, 0, 30, 255>>
FrameD == <<30, 0, 0, 255>>
FrameX == <<7, 7, 7, 255>>

Frames == {FrameA, FrameB, FrameC, FrameD}
ReplayFrames == Frames \cup {FrameX}

\* Hashes read from a recording: one of a frame, and one of no frame.
LoadHashes == {hash(FrameA), <<222, 173, 190, 239>>}

----------------------------------------------------------------------------
(* Actions. *)

\* A call record: at is the cursor and the length the call found in its view.
Call(op, id, args, at, val, panic) ==
    [op |-> op, id |-> id, args |-> args, at |-> at, val |-> val, panic |-> panic]

NoView == <<0, 0>>

At(d, id) == IF id \in DOMAIN d THEN <<d[id].snapshot, Len(d[id].snapshots)>> ELSE NoView

Running == ~ret.panic

Init ==
    /\ data = NoViews
    /\ screens = <<>>
    /\ last_verified = None
    /\ ret = Call("new", 0, <<>>, NoView, None, FALSE)
    /\ pushed = NoViews
    /\ max_id = NoViews
    /\ saved = NoViews
    /\ recorded = <<>>
    /\ replayed = <<>>
    /\ outcomes = <<>>
    /\ appended = <<>>
    /\ rwlock = [readers |-> {}, writer |-> {}]
    /\ pc = [t \in Threads |-> "idle"]
    /\ pending = [t \in Threads |-> None]
    /\ committed = NoViews
    /\ mgr = ViewManager_new
    /\ issued = 0
    /\ view = None
    /\ brush = Brush_default
    /\ disk = None

AddView(id, fw, fh, pixels) ==
    /\ Running
    /\ data' = add_view(data, id, fw, fh, pixels)
    /\ pushed' = Insert(pushed, id, <<pixels>>)
    /\ max_id' = Insert(max_id, id, 0)
    /\ saved' = Insert(saved, id, <<>>)
    /\ ret' = Call("add_view", id, <<fw, fh, pixels>>, At(data, id), None, FALSE)
    /\ UNCHANGED <<replayVars, runVars, lockVars, uiVars>>

AddBlankView(id, w, h) ==
    /\ Running
    /\ data' = add_blank_view(data, id, w, h)
    /\ pushed' = Insert(pushed, id, <<Zeroes(w * h * 4)>>)
    /\ max_id' = Insert(max_id, id, 0)
    /\ saved' = Insert(saved, id, <<>>)
    /\ ret' = Call("add_blank_view", id, <<w, h>>, At(data, id), None, FALSE)
    /\ UNCHANGED <<replayVars, runVars, lockVars, uiVars>>

RemoveView(id) ==
    /\ Running
    /\ data' = remove_view(data, id)
    /\ pushed' = Remove(pushed, id)
    /\ max_id' = Remove(max_id, id)
    /\ saved' = Remove(saved, id)
    /\ ret' = Call("remove_view", id, <<>>, At(data, id), None, FALSE)
    /\ UNCHANGED <<replayVars, runVars, lockVars, uiVars>>

\* The snapshots a view has undone and not redone.
Depth(vr) == Len(vr.snapshots) - 1 - vr.snapshot

Last(s) == s[Len(s)]

\* get_view_mut(id), then push_snapshot on the view
PushSnapshot(id, pixels, fw, fh, nframes) ==
    /\ Running
    /\ id \in DOMAIN data
    /\ data' = [data EXCEPT ![id] = push_snapshot(@, pixels, fw, fh, nframes)]
    /\ pushed' = [pushed EXCEPT ![id] =
                    Append(SubSeq(@, 1, Min(data[id].snapshot + 1, Len(@))), pixels)]
    /\ max_id' = [max_id EXCEPT ![id] =
                    LET new == Last(data'[id].snapshots).id
                    IN IF new > @ THEN new ELSE @]
    /\ saved' = [saved EXCEPT ![id] = <<>>]
    /\ ret' = Call("push_snapshot", id, <<pixels, fw, fh, nframes>>, At(data, id), None, FALSE)
    /\ UNCHANGED <<replayVars, runVars, lockVars, uiVars>>

\* get_view_mut(id), then prev_snapshot on the view
PrevSnapshot(id) ==
    /\ Running
    /\ id \in DOMAIN data
    /\ LET r == prev_snapshot(data[id])
           d == Depth(data[id])
           seen == [snapshot |-> data[id].snapshot, pixels |-> data[id].pixels]
       IN /\ data' = [data EXCEPT ![id] = r.vr]
          /\ saved' = [saved EXCEPT ![id] =
                         IF r.val = None \/ d < 0 THEN @
                         ELSE [j \in 1..(IF Len(@) > d + 1 THEN Len(@) ELSE d + 1) |->
                                 IF j = d + 1 THEN seen
                                 ELSE IF j <= Len(@) THEN @[j] ELSE seen]]
          /\ ret' = Call("prev_snapshot", id, <<>>, At(data, id), r.val, FALSE)
    /\ UNCHANGED <<pushed, max_id, replayVars, runVars, lockVars, uiVars>>

\* get_view_mut(id), then next_snapshot on the view
NextSnapshot(id) ==
    /\ Running
    /\ id \in DOMAIN data
    /\ LET r == next_snapshot(data[id])
       IN /\ data' = [data EXCEPT ![id] = r.vr]
          /\ ret' = Call("next_snapshot", id, <<>>, At(data, id), r.val, FALSE)
    /\ UNCHANGED <<histVars, replayVars, runVars, lockVars, uiVars>>

\* lock(), then get_snapshot(id)
GetSnapshot(id) ==
    /\ Running
    /\ LET r == get_snapshot(data, id)
       IN ret' = Call("get_snapshot", id, <<>>, At(data, id), r.val, r.panic)
    /\ UNCHANGED <<data, histVars, replayVars, runVars, lockVars, uiVars>>

\* The snapshots the table holds, over all views but view id.
RECURSIVE Held(_, _)
Held(d, ids) ==
    IF ids = {} THEN 0
    ELSE LET k == CHOOSE k \in ids : TRUE
         IN Len(d[k].snapshots) + Held(d, ids \ {k})

Others(id) == Held(data, DOMAIN data \ {id})

Next ==
    \/ \E id \in ViewIds, in \in ViewInputs :
          /\ Others(id) + 1 <= MaxSnapshots
          /\ AddView(id, in.fw, in.fh, in.pixels)
    \/ \E id \in ViewIds, in \in BlankInputs :
          /\ Others(id) + 1 <= MaxSnapshots
          /\ AddBlankView(id, in.w, in.h)
    \/ \E id \in ViewIds : RemoveView(id)
    \/ \E id \in DOMAIN data, in \in PushInputs :
          /\ Others(id) + data[id].snapshot + 2 <= MaxSnapshots
          /\ PushSnapshot(id, in.pixels, in.fw, in.fh, in.nframes)
    \/ \E id \in DOMAIN data : PrevSnapshot(id)
    \/ \E id \in DOMAIN data : NextSnapshot(id)
    \/ \E id \in DOMAIN data : GetSnapshot(id)

\* The view histories under every sequence of table and history calls.
Spec == Init /\ [][Next]_vars

----------------------------------------------------------------------------
(* Replay: actions. *)

LoadScreen(h) ==
    /\ Running
    /\ screens' = load_screen(screens, h)
    /\ ret' = Call("load_screen", 0, <<h>>, NoView, None, FALSE)
    /\ UNCHANGED <<data, last_verified, histVars, runVars, lockVars, uiVars>>

RecordScreen(bytes) ==
    /\ Running
    /\ screens' = record_screen(screens, bytes)
    /\ ret' = Call("record_screen", 0, <<bytes>>, NoView, None, FALSE)
    /\ UNCHANGED <<data, last_verified, histVars, runVars, lockVars, uiVars>>

VerifyScreen(bytes) ==
    /\ Running
    /\ LET r == verify_screen(screens, last_verified, bytes)
       IN /\ screens' = r.screens
          /\ last_verified' = r.last_verified
          /\ ret' = Call("verify_screen", 0, <<bytes>>, NoView, r.val, FALSE)
    /\ UNCHANGED <<data, histVars, runVars, lockVars, uiVars>>

NextReplay ==
    \/ \E h \in LoadHashes : Len(screens) < MaxScreens /\ LoadScreen(h)
    \/ \E f \in Frames : Len(screens) < MaxScreens /\ RecordScreen(f)
    \/ \E f \in ReplayFrames : VerifyScreen(f)
    \/ \E id \in ViewIds, in \in BlankInputs :
          /\ id \notin DOMAIN data
          /\ AddBlankView(id, in.w, in.h)
    \/ \E id \in DOMAIN data : RemoveView(id)

\* The replay state under every interleaving of load, record and verify,
\* with views coming and going.
SpecReplay == Init /\ [][NextReplay]_vars

----------------------------------------------------------------------------
(* A recording followed by its replay.  Frames are recorded into the empty  *)
(* queue; the replay then starts with nothing verified, follows the         *)
(* recording except for at most one frame, and may run past its end.        *)

\* The positions, up to the shorter length, where two runs differ.
Mismatches(a, b) == {k \in 1..Min(Len(a), Len(b)) : a[k] # b[k]}

RunRecord(bytes) ==
    /\ Running
    /\ replayed = <<>>
    /\ screens' = record_screen(screens, bytes)
    /\ recorded' = Append(recorded, bytes)
    /\ appended' = IF screens' # screens THEN Append(appended, hash(bytes)) ELSE appended
    /\ ret' = Call("record_screen", 0, <<bytes>>, NoView, None, FALSE)
    /\ UNCHANGED <<data, last_verified, histVars, replayed, outcomes, lockVars, uiVars>>

RunVerify(bytes) ==
    /\ Running
    /\ LET r == verify_screen(screens, last_verified, bytes)
       IN /\ screens' = r.screens
          /\ last_verified' = r.last_verified
          /\ replayed' = Append(replayed, bytes)
          /\ outcomes' = Append(outcomes, r.val)
          /\ ret' = Call("verify_screen", 0, <<bytes>>, NoView, r.val, FALSE)
    /\ UNCHANGED <<data, histVars, recorded, appended, lockVars, uiVars>>

NextRun ==
    \/ \E f \in Frames : Len(recorded) < MaxRun /\ RunRecord(f)
    \/ \E f \in ReplayFrames :
          /\ Len(replayed) < Len(recorded) + MaxExtra
          /\ IF Len(replayed) >= Len(recorded) THEN TRUE
             ELSE f = recorded[Len(replayed) + 1]
                  \/ Mismatches(replayed, recorded) = {}
          /\ RunVerify(f)

SpecRun == Init /\ [][NextRun]_vars

----------------------------------------------------------------------------
(* A queue built by loading hashes and recording frames in any mix, and     *)
(* then verified against any frames.                                        *)

MaxOrder == 3

OrderFrames == {FrameA, FrameB}
OrderReplayFrames == {FrameA, FrameB, FrameX}

RunLoad(h) ==
    /\ Running
    /\ replayed = <<>>
    /\ screens' = load_screen(screens, h)
    /\ appended' = Append(appended, h)
    /\ ret' = Call("load_screen", 0, <<h>>, NoView, None, FALSE)
    /\ UNCHANGED <<data, last_verified, histVars, recorded, replayed, outcomes, lockVars, uiVars>>

NextOrder ==
    \/ \E h \in LoadHashes : Len(appended) < MaxOrder /\ RunLoad(h)
    \/ \E f \in OrderFrames :
          /\ Len(appended) < MaxOrder
          /\ Len(recorded) < MaxOrder
          /\ RunRecord(f)
    \/ \E f \in OrderReplayFrames :
          /\ Len(replayed) < Len(appended) + MaxExtra
          /\ RunVerify(f)

SpecOrder == Init /\ [][NextOrder]_vars

----------------------------------------------------------------------------
(* A queue of loaded hashes verified against frames that may repeat after   *)
(* any outcome.                                                             *)

MaxStaleQueue == 2
MaxStaleRun == 4

StaleFrames == {FrameA, FrameX}

NextStale ==
    \/ \E h \in LoadHashes : Len(appended) < MaxStaleQueue /\ RunLoad(h)
    \/ \E f \in StaleFrames : Len(replayed) < MaxStaleRun /\ RunVerify(f)

SpecStale == Init /\ [][NextStale]_vars

----------------------------------------------------------------------------
(* The view table: views added, pushed to, removed and looked up by any id, *)
(* present or not, next to a queue of loaded hashes.                        *)

MaxTableViews == 2
MaxTableSnapshots == 3
MaxTableScreens == 1

TableIds == 1..MaxTableViews

\* lock_mut(), then get_snapshot_mut(id)
GetSnapshotMut(id) ==
    /\ Running
    /\ LET r == get_snapshot_mut(data, id)
       IN ret' = Call("get_snapshot_mut", id, <<>>, At(data, id), r.val, r.panic)
    /\ UNCHANGED <<data, histVars, replayVars, runVars, lockVars, uiVars>>

\* lock_mut(), then get_view_mut(id)
GetViewMut(id) ==
    /\ Running
    /\ ret' = Call("get_view_mut", id, <<>>, At(data, id), get_view_mut(data, id), FALSE)
    /\ UNCHANGED <<data, histVars, replayVars, runVars, lockVars, uiVars>>

NextTable ==
    \/ \E id \in TableIds, in \in ViewInputs :
          /\ Others(id) + 1 <= MaxTableSnapshots
          /\ AddView(id, in.fw, in.fh, in.pixels)
    \/ \E id \in TableIds, in \in BlankInputs :
          /\ Others(id) + 1 <= MaxTableSnapshots
          /\ AddBlankView(id, in.w, in.h)
    \/ \E id \in TableIds : RemoveView(id)
    \/ \E id \in DOMAIN data, in \in PushInputs :
          /\ Others(id) + data[id].snapshot + 2 <= MaxTableSnapshots
          /\ PushSnapshot(id, in.pixels, in.fw, in.fh, in.nframes)
    \/ \E id \in TableIds : GetSnapshot(id)
    \/ \E id \in TableIds : GetSnapshotMut(id)
    \/ \E id \in TableIds : GetViewMut(id)
    \/ \E h \in LoadHashes : Len(screens) < MaxTableScreens /\ LoadScreen(h)

SpecTable == Init /\ [][NextTable]_vars

----------------------------------------------------------------------------
(* Hash text.  A text is the sequence of its bytes; a hash is four bytes.   *)

Ok(x) == <<"Ok", x>>
Err(e) == <<"Err", e>>

\* "{:02x}" of one nibble, as an ASCII byte.
HexDigit(n) == IF n < 10 THEN 48 + n ELSE 87 + n

RECURSIVE Flatten(_)
Flatten(ss) == IF ss = <<>> THEN <<>> ELSE Head(ss) \o Flatten(Tail(ss))

\* Formatting without the zero padding.
fmt_unpadded(h) ==
    Flatten([i \in 1..Len(h) |->
                IF h[i] < 16 THEN <<HexDigit(h[i])>>
                ELSE <<HexDigit(h[i] \div 16), HexDigit(h[i] % 16)>>])

\* Display for Hash: two lowercase hex digits per byte.
fmt(h) ==
    Flatten([i \in 1..Len(h) |-> <<HexDigit(h[i] \div 16), HexDigit(h[i] % 16)>>])

\* The closure val of from_str.
val(c) ==
    IF c \in 97..102 THEN Ok(c - 97 + 10)
    ELSE IF c \in 48..57 THEN Ok(c - 48)
    ELSE Err(<<"invalid hex character", c>>)

\* slice::chunks
chunks(s, n) ==
    [i \in 1..((Len(s) + n - 1) \div n) |-> SubSeq(s, (i - 1) * n + 1, Min(i * n, Len(s)))]

\* The loop of from_str over the pairs left, with the bytes decoded so far.
\* left is a multiple of 16 and right is below 16, so left | right is their
\* sum.
RECURSIVE from_str_loop(_, _, _)
from_str_loop(input, pairs, bytes) ==
    IF pairs = <<>> THEN Ok(bytes)
    ELSE LET pair == Head(pairs)
         IN IF Len(pair) # 2 THEN Err(<<"invalid hex string", input>>)
            ELSE LET l == val(pair[1])
                     r == val(pair[2])
                 IN IF l[1] = "Err" THEN l
                    ELSE IF r[1] = "Err" THEN r
                    ELSE from_str_loop(input, Tail(pairs),
                                       Append(bytes, ((l[2] * 16) % 256) + r[2]))

\* FromStr for Hash.  copy_from_slice panics unless four bytes were decoded.
from_str(input) ==
    LET r == from_str_loop(input, chunks(input, 2), <<>>)
    IN IF r[1] = "Err" THEN [panic |-> FALSE, val |-> r]
       ELSE IF Len(r[2]) # 4 THEN [panic |-> TRUE, val |-> None]
       ELSE [panic |-> FALSE, val |-> Ok(r[2])]

MaxText == 9

\* Texts of the digits 0 and f, up to MaxText bytes long.
RECURSIVE PlainTexts(_)
PlainTexts(n) ==
    IF n = 0 THEN {<<>>}
    ELSE LET shorter == PlainTexts(n - 1)
         IN shorter \cup {Append(t, c) : t \in {u \in shorter : Len(u) = n - 1}, c \in {48, 102}}

\* The bytes next to the digit ranges, upper case, and a byte of a
\* multi-byte character:  / 9 : A F ` a g
OddBytes == {47, 57, 58, 65, 70, 96, 97, 103, 195}

\* Texts of zeroes with one byte replaced.
SpoiledTexts ==
    {[i \in 1..n |-> IF i = k THEN c ELSE 48] : n \in 1..MaxText, k \in 1..MaxText, c \in OddBytes}

Texts == PlainTexts(MaxText) \cup SpoiledTexts

HashBytes == {0, 10, 171, 255}

HashValues == {<<a, b, c, d>> : a \in HashBytes, b \in HashBytes, c \in HashBytes, d \in HashBytes}

FromStr(input) ==
    /\ Running
    /\ LET r == from_str(input)
       IN ret' = Call("from_str", 0, <<input>>, NoView, r.val, r.panic)
    /\ UNCHANGED <<data, histVars, replayVars, runVars, lockVars, uiVars>>

Fmt(h) ==
    /\ Running
    /\ ret' = Call("fmt", 0, <<h>>, NoView, fmt(h), FALSE)
    /\ UNCHANGED <<data, histVars, replayVars, runVars, lockVars, uiVars>>

\* One text is parsed or one hash is formatted, and then each result is
\* converted back.
NextHash ==
    \/ \E input \in Texts : ret.op = "new" /\ FromStr(input)
    \/ \E h \in HashValues : ret.op = "new" /\ Fmt(h)
    \/ ret.op = "fmt" /\ FromStr(ret.val)
    \/ ret.op = "from_str" /\ ~ret.panic /\ ret.val[1] = "Ok" /\ Fmt(ret.val[2])

SpecHash == Init /\ [][NextHash]_vars

----------------------------------------------------------------------------
(* Threads.  Every thread has a clone of the ResourceManager, and all       *)
(* clones share one RwLock.  A thread takes a guard, makes one call under   *)
(* it and drops the guard when the call returns; push_snapshot is taken     *)
(* statement by statement, and an export is taken in two steps: up to the   *)
(* point where the file is open and being written, and its return.          *)

MaxLockSnapshots == 3

\* The view the threads share.
LockIds == {1}

\* A read lock that does not wait for the writer.
can_lock_any(l) == TRUE

\* RwLock::read is granted while no thread holds the write guard.
can_lock(l) == l.writer = {}

\* ResourceManager::lock
lock(l, t) == [l EXCEPT !.readers = @ \cup {t}]

\* A write lock that waits for the writer only.
can_lock_mut_shared(l) == l.writer = {}

\* RwLock::write is granted while no thread holds any guard.
can_lock_mut(l) == l.writer = {} /\ l.readers = {}

\* ResourceManager::lock_mut
lock_mut(l, t) == [l EXCEPT !.writer = @ \cup {t}]

\* The guard of thread t goes out of scope.
drop(l, t) == [readers |-> l.readers \ {t}, writer |-> l.writer \ {t}]

\* push_snapshot: clear the list forward
push_truncate(vr) ==
    IF vr.snapshot # Len(vr.snapshots) - 1
    THEN LET t == Truncate(vr.snapshots, vr.snapshot + 1)
         IN [vr EXCEPT !.snapshots = t, !.snapshot = Len(t) - 1]
    ELSE vr

\* push_snapshot: self.snapshot += 1
push_cursor(vr) == [vr EXCEPT !.snapshot = @ + 1]

\* push_snapshot: self.pixels = Bgra8::align(&pixels).into()
push_pixels(vr, pixels) == [vr EXCEPT !.pixels = Align(pixels)]

\* push_snapshot: self.snapshots.push(Snapshot::new(..))
push_append(vr, pixels, fw, fh, nframes) ==
    [vr EXCEPT !.snapshots = Append(@, Snapshot_new(vr.snapshot, pixels, fw, fh, nframes))]

\* The result of an export: save_view returns the snapshot id and the
\* number of pixels, save_view_gif the number of bytes of all frames.
save_result(vr, op) ==
    LET s == current_snapshot_mut(vr).val[1]
    IN IF op = "save_view" THEN Ok(<<s.id, (s.fw * s.nframes) * s.fh>>)
       ELSE Ok((s.fw * s.fh * 4) * s.nframes)

Lock(t) ==
    /\ Running
    /\ pc[t] = "idle"
    /\ can_lock(rwlock)
    /\ rwlock' = lock(rwlock, t)
    /\ pc' = [pc EXCEPT ![t] = "read"]
    /\ UNCHANGED <<data, ret, pending, committed, histVars, replayVars, runVars, uiVars>>

\* get_snapshot under the read guard, which is then dropped
ReadSnapshot(t, id) ==
    /\ Running
    /\ pc[t] = "read"
    /\ LET r == get_snapshot(data, id)
       IN ret' = Call("get_snapshot", id, <<>>, At(data, id), r.val, r.panic)
    /\ rwlock' = drop(rwlock, t)
    /\ pc' = [pc EXCEPT ![t] = "idle"]
    /\ UNCHANGED <<data, pending, committed, histVars, replayVars, runVars, uiVars>>

LockMut(t) ==
    /\ Running
    /\ pc[t] = "idle"
    /\ can_lock_mut(rwlock)
    /\ rwlock' = lock_mut(rwlock, t)
    /\ pc' = [pc EXCEPT ![t] = "write"]
    /\ UNCHANGED <<data, ret, pending, committed, histVars, replayVars, runVars, uiVars>>

\* The call thread t made under the write guard returns: the guard is
\* dropped and the table is what the next holder finds.
Return(t, d, call) ==
    /\ data' = d
    /\ committed' = d
    /\ ret' = call
    /\ rwlock' = drop(rwlock, t)
    /\ pc' = [pc EXCEPT ![t] = "idle"]
    /\ pending' = [pending EXCEPT ![t] = None]
    /\ UNCHANGED <<histVars, replayVars, runVars, uiVars>>

ThreadAddView(t, id, fw, fh, pixels) ==
    /\ Running
    /\ pc[t] = "write"
    /\ Return(t, add_view(data, id, fw, fh, pixels),
              Call("add_view", id, <<fw, fh, pixels>>, At(data, id), None, FALSE))

ThreadRemoveView(t, id) ==
    /\ Running
    /\ pc[t] = "write"
    /\ Return(t, remove_view(data, id),
              Call("remove_view", id, <<>>, At(data, id), None, FALSE))

ThreadPrevSnapshot(t, id) ==
    /\ Running
    /\ pc[t] = "write"
    /\ id \in DOMAIN data
    /\ LET r == prev_snapshot(data[id])
       IN Return(t, [data EXCEPT ![id] = r.vr],
                 Call("prev_snapshot", id, <<>>, At(data, id), r.val, FALSE))

ThreadNextSnapshot(t, id) ==
    /\ Running
    /\ pc[t] = "write"
    /\ id \in DOMAIN data
    /\ LET r == next_snapshot(data[id])
       IN Return(t, [data EXCEPT ![id] = r.vr],
                 Call("next_snapshot", id, <<>>, At(data, id), r.val, FALSE))

PushTruncate(t, id, in) ==
    /\ Running
    /\ pc[t] = "write"
    /\ id \in DOMAIN data
    /\ pending' = [pending EXCEPT ![t] = Some([id |-> id, in |-> in, at |-> At(data, id)])]
    /\ data' = [data EXCEPT ![id] = push_truncate(@)]
    /\ pc' = [pc EXCEPT ![t] = "push_truncated"]
    /\ UNCHANGED <<ret, rwlock, committed, histVars, replayVars, runVars, uiVars>>

PushCursor(t) ==
    /\ Running
    /\ pc[t] = "push_truncated"
    /\ data' = [data EXCEPT ![pending[t][1].id] = push_cursor(@)]
    /\ pc' = [pc EXCEPT ![t] = "push_cursor"]
    /\ UNCHANGED <<ret, rwlock, pending, committed, histVars, replayVars, runVars, uiVars>>

PushPixels(t) ==
    /\ Running
    /\ pc[t] = "push_cursor"
    /\ data' = [data EXCEPT ![pending[t][1].id] = push_pixels(@, pending[t][1].in.pixels)]
    /\ pc' = [pc EXCEPT ![t] = "push_pixels"]
    /\ UNCHANGED <<ret, rwlock, pending, committed, histVars, replayVars, runVars, uiVars>>

PushAppend(t) ==
    /\ Running
    /\ pc[t] = "push_pixels"
    /\ LET p == pending[t][1]
       IN Return(t, [data EXCEPT ![p.id] =
                        push_append(@, p.in.pixels, p.in.fw, p.in.fh, p.in.nframes)],
                 Call("push_snapshot", p.id,
                      <<p.in.pixels, p.in.fw, p.in.fh, p.in.nframes>>, p.at, None, FALSE))

\* save_view and save_view_gif up to File::create: the pixels are read
\* through get_snapshot_mut, which panics for a view the table lacks.
SaveOpen(t, id, op) ==
    /\ Running
    /\ pc[t] = "write"
    /\ LET r == get_snapshot_mut(data, id)
       IN IF r.panic
          THEN /\ ret' = Call(op, id, <<>>, At(data, id), None, TRUE)
               /\ UNCHANGED <<pc, pending>>
          ELSE /\ pc' = [pc EXCEPT ![t] = "file"]
               /\ pending' = [pending EXCEPT ![t] = Some([id |-> id, in |-> op, at |-> At(data, id)])]
               /\ UNCHANGED ret
    /\ UNCHANGED <<data, rwlock, committed, histVars, replayVars, runVars, uiVars>>

\* The file is written, or an I/O error ends the export; either way the
\* function returns and its guard goes out of scope.
SaveReturn(t, written) ==
    /\ Running
    /\ pc[t] = "file"
    /\ LET p == pending[t][1]
       IN Return(t, data,
                 Call(p.in, p.id, <<>>, p.at,
                      IF written THEN save_result(data[p.id], p.in) ELSE Err("io"),
                      FALSE))

NextLock ==
    \/ \E t \in Threads : Lock(t)
    \/ \E t \in Threads, id \in LockIds : ReadSnapshot(t, id)
    \/ \E t \in Threads : LockMut(t)
    \/ \E t \in Threads, id \in LockIds, in \in ViewInputs :
          ThreadAddView(t, id, in.fw, in.fh, in.pixels)
    \/ \E t \in Threads, id \in LockIds : ThreadRemoveView(t, id)
    \/ \E t \in Threads, id \in LockIds : ThreadPrevSnapshot(t, id)
    \/ \E t \in Threads, id \in LockIds : ThreadNextSnapshot(t, id)
    \/ \E t \in Threads, id \in DOMAIN data, in \in PushInputs :
          /\ data[id].snapshot + 2 <= MaxLockSnapshots
          /\ PushTruncate(t, id, in)
    \/ \E t \in Threads : PushCursor(t)
    \/ \E t \in Threads : PushPixels(t)
    \/ \E t \in Threads : PushAppend(t)
    \/ \E t \in Threads, id \in LockIds, op \in {"save_view", "save_view_gif"} :
          SaveOpen(t, id, op)
    \/ \E t \in Threads, written \in BOOLEAN : SaveReturn(t, written)

SpecLock == Init /\ [][NextLock]_vars

----------------------------------------------------------------------------
(* The codec and the snapshot over byte buffers: a buffer is compressed and *)
(* the result decompressed, or a snapshot is built of it and its pixels are *)
(* read back.                                                               *)

MaxBuffer == 5

CodecBytes == {0, 7, 255}

\* The buffers of up to n bytes.
RECURSIVE Buffers(_)
Buffers(n) ==
    IF n = 0 THEN {<<>>}
    ELSE LET shorter == Buffers(n - 1)
         IN shorter \cup {Append(b, x) : b \in {u \in shorter : Len(u) = n - 1}, x \in CodecBytes}

\* Compressed::from
CompressFrom(input) ==
    /\ Running
    /\ ret' = Call("from", 0, <<input>>, NoView, Ok(Compress(input)), FALSE)
    /\ UNCHANGED <<data, histVars, replayVars, runVars, lockVars, uiVars>>

\* Compressed::decompress
CompressedDecompress(c) ==
    /\ Running
    /\ ret' = Call("decompress", 0, <<c>>, NoView, Ok(Decompress(c)), FALSE)
    /\ UNCHANGED <<data, histVars, replayVars, runVars, lockVars, uiVars>>

\* Snapshot::new
SnapshotNew(id, pixels, fw, fh, nframes) ==
    /\ Running
    /\ ret' = Call("Snapshot::new", id, <<pixels, fw, fh, nframes>>, NoView,
                   Snapshot_new(id, pixels, fw, fh, nframes), FALSE)
    /\ UNCHANGED <<data, histVars, replayVars, runVars, lockVars, uiVars>>

\* Snapshot::pixels
SnapshotPixels(snapshot) ==
    /\ Running
    /\ ret' = Call("Snapshot::pixels", snapshot.id, <<snapshot>>, NoView,
                   Snapshot_pixels(snapshot), FALSE)
    /\ UNCHANGED <<data, histVars, replayVars, runVars, lockVars, uiVars>>

NextCodec ==
    \/ \E b \in Buffers(MaxBuffer) : ret.op = "new" /\ CompressFrom(b)
    \/ ret.op = "from" /\ CompressedDecompress(ret.val[2])
    \/ \E b \in Buffers(MaxBuffer) :
          /\ ret.op = "new"
          /\ Len(b) % 4 = 0
          /\ SnapshotNew(0, b, Len(b) \div 4, 1, 1)
    \/ ret.op = "Snapshot::new" /\ SnapshotPixels(ret.val)

SpecCodec == Init /\ [][NextCodec]_vars

----------------------------------------------------------------------------
(* Snapshot sizes.  Views are added and pushed to with buffers of the       *)
(* expected size and of other sizes, in a build with debug assertions and   *)
(* in one without.                                                          *)

MaxSizeSnapshots == 3

\* The condition of the debug_assert! in Snapshot::new.
size_asserted(pixels, fw, fh, nframes) == (fw * fh) * nframes * 4 = Len(pixels)

\* add_view(id, fw, fh, pixels): one red pixel, and two pixels given as one.
SizeViewInputs ==
    ViewInputs \cup {[fw |-> 1, fh |-> 1, pixels |-> Red \o Transparent]}

\* push_snapshot(pixels, fw, fh, nframes): one pixel given as two frames.
SizePushInputs ==
    PushInputs \cup {[pixels |-> Red, fw |-> 1, fh |-> 1, nframes |-> 2]}

\* add_view, with the debug_assert! of Snapshot::new compiled in or out
AddViewBuilt(debug_assertions, id, fw, fh, pixels) ==
    IF debug_assertions /\ ~size_asserted(pixels, fw, fh, 1)
    THEN /\ Running
         /\ ret' = Call("add_view", id, <<fw, fh, pixels>>, At(data, id), None, TRUE)
         /\ UNCHANGED <<data, histVars, replayVars, runVars, lockVars, uiVars>>
    ELSE AddView(id, fw, fh, pixels)

\* push_snapshot, with the debug_assert! of Snapshot::new compiled in or
\* out: the assertion fails after the list was cleared forward, the cursor
\* advanced and the pixels replaced.
PushSnapshotBuilt(debug_assertions, id, pixels, fw, fh, nframes) ==
    IF debug_assertions /\ ~size_asserted(pixels, fw, fh, nframes)
    THEN /\ Running
         /\ id \in DOMAIN data
         /\ data' = [data EXCEPT ![id] = push_pixels(push_cursor(push_truncate(@)), pixels)]
         /\ ret' = Call("push_snapshot", id, <<pixels, fw, fh, nframes>>, At(data, id), None, TRUE)
         /\ UNCHANGED <<histVars, replayVars, runVars, lockVars, uiVars>>
    ELSE PushSnapshot(id, pixels, fw, fh, nframes)

NextSize ==
    \/ \E debug_assertions \in BOOLEAN, id \in LockIds, in \in SizeViewInputs :
          AddViewBuilt(debug_assertions, id, in.fw, in.fh, in.pixels)
    \/ \E id \in LockIds, in \in BlankInputs : AddBlankView(id, in.w, in.h)
    \/ \E debug_assertions \in BOOLEAN, id \in DOMAIN data, in \in SizePushInputs :
          /\ data[id].snapshot + 2 <= MaxSizeSnapshots
          /\ PushSnapshotBuilt(debug_assertions, id, in.pixels, in.fw, in.fh, in.nframes)
    \/ \E id \in DOMAIN data : PrevSnapshot(id)

SpecSize == Init /\ [][NextSize]_vars

----------------------------------------------------------------------------
(* Animation export.  A view is made, an animation strip is pushed to it,   *)
(* and the strip is exported with a frame delay.  The file is the sequence  *)
(* of frames handed to the encoder, each with its size, delay and bytes.    *)

MaxGifWidth == 2
MaxGifFrames == 2
MaxDelay == 10

U16Max == 65535

\* A conversion that casts to u16 without taking the minimum first.
frame_delay_wrap(ms) == (ms \div 10) % (U16Max + 1)

\* save_view_gif: the delay in units of 10 ms, kept within a u16.
frame_delay(ms) == Min(ms \div 10, U16Max) % (U16Max + 1)

\* Rgba8 from Bgra8, as the bytes r, g, b, a.
Rgba(bgra) == <<bgra.r, bgra.g, bgra.b, bgra.a>>

\* save_view_gif: the pixels converted for writing to disk.
gif_image(pixels) == Flatten([i \in 1..Len(pixels) |-> Rgba(pixels[i])])

\* A conversion that takes the frames as stacked from top to bottom.
RECURSIVE gif_frames_stacked(_, _, _, _, _, _)
gif_frames_stacked(i, frames, image, fw, fh, nframes) ==
    IF i >= fh * nframes THEN frames
    ELSE LET offset == i * (fw * 4)
             row == SubSeq(image, offset + 1, offset + fw * 4)
         IN gif_frames_stacked(i + 1, [frames EXCEPT ![(i \div fh) + 1] = @ \o row],
                               image, fw, fh, nframes)

\* save_view_gif: the loop that deals the rows of the strip out to the
\* frames, from row i on.
RECURSIVE gif_frames(_, _, _, _, _, _)
gif_frames(i, frames, image, fw, fh, nframes) ==
    IF i >= fh * nframes THEN frames
    ELSE LET offset == i * (fw * 4)
             row == SubSeq(image, offset + 1, offset + fw * 4)
         IN gif_frames(i + 1, [frames EXCEPT ![(i % nframes) + 1] = @ \o row],
                       image, fw, fh, nframes)

\* save_view_gif without its locking and its I/O errors: the frames written
\* and the byte count returned.  A row beyond the end of the image panics.
save_view_gif(d, id, ms) ==
    LET r == get_snapshot_mut(d, id)
    IN IF r.panic THEN [panic |-> TRUE, val |-> None]
       ELSE LET snapshot == r.val[1]
                image == gif_image(r.val[2])
                fw == snapshot.fw
                fh == snapshot.fh
                nframes == snapshot.nframes
                frames == gif_frames(0, [k \in 1..nframes |-> <<>>], image, fw, fh, nframes)
            IN IF (fh * nframes) * (fw * 4) > Len(image)
               THEN [panic |-> TRUE, val |-> None]
               ELSE [panic |-> FALSE,
                     val |-> [ok |-> Ok((fw * fh * 4) * nframes),
                              file |-> [k \in 1..nframes |->
                                          [width |-> fw % (U16Max + 1),
                                           height |-> fh % (U16Max + 1),
                                           delay |-> frame_delay(ms),
                                           buffer |-> frames[k]]]]]

\* The strip of n pixels, each with bytes of its own.
StripPixels(n) == Flatten([j \in 1..n |-> <<j, 100 + j, 200, 255>>])

GifInputs ==
    {[pixels |-> StripPixels(fw * fh * nframes), fw |-> fw, fh |-> fh, nframes |-> nframes] :
        fw \in 1..MaxGifWidth, fh \in {1, 2}, nframes \in 1..MaxGifFrames}

\* Frame delays in ms: short ones, those around the largest delay a frame
\* can carry, and long ones.
GifDelays ==
    (0..MaxDelay) \cup ((10 * U16Max - MaxDelay)..(10 * U16Max + MaxDelay))
        \cup {1000000, 2147483647}

SaveViewGif(id, ms) ==
    /\ Running
    /\ LET r == save_view_gif(data, id, ms)
       IN ret' = Call("save_view_gif", id, <<ms>>, At(data, id), r.val, r.panic)
    /\ UNCHANGED <<data, histVars, replayVars, runVars, lockVars, uiVars>>

NextGif ==
    \/ \E id \in LockIds, in \in BlankInputs :
          id \notin DOMAIN data /\ AddBlankView(id, in.w, in.h)
    \/ \E id \in DOMAIN data, in \in GifInputs :
          /\ Len(data[id].snapshots) = 1
          /\ PushSnapshot(id, in.pixels, in.fw, in.fh, in.nframes)
    \/ \E id \in DOMAIN data, ms \in GifDelays : SaveViewGif(id, ms)

SpecGif == Init /\ [][NextGif]_vars

----------------------------------------------------------------------------
(* View.  The fields offset, zoom, flip_x, flip_y and hover, which none of  *)
(* the calls below reads or writes, are left out.  An Animation is its      *)
(* frames and its delay in ms; a Rect is <<x1, y1, x2, y2>>.                *)

MaxViewFrames == 3
MaxFrameWidth == 3

NoFile == <<"NoFile">>
New(path) == <<"New", path>>
Saved(path) == <<"Saved", path>>
Modified(path) == <<"Modified", path>>

\* Rect::origin
Rect_origin(w, h) == <<0, 0, w, h>>

\* View::new
View_new(id, fs, fw, fh) ==
    [id |-> id, fw |-> fw, fh |-> fh, ops |-> <<>>,
     file_status |-> fs,
     animation |-> [frames |-> <<Rect_origin(fw, fh)>>, delay |-> 160],
     state |-> "Okay",
     saved_snapshot |-> IF fs[1] = "Saved" THEN Some(0) ELSE None]

\* View::width
View_width(v) == v.fw * Len(v.animation.frames)

\* View::saved
View_saved(v, id, path) ==
    [v EXCEPT !.file_status = Saved(path), !.saved_snapshot = Some(id)]

\* A save that does not compare the paths.
View_save_as_any(v, id, path) ==
    IF v.file_status[1] = "Saved" THEN v ELSE View_saved(v, id, path)

\* View::save_as
View_save_as(v, id, path) ==
    IF v.file_status[1] \in {"Modified", "New"}
    THEN IF v.file_status[2] = path THEN View_saved(v, id, path) ELSE v
    ELSE IF v.file_status = NoFile THEN View_saved(v, id, path)
    ELSE v

\* View::touch
View_touch(v) ==
    [v EXCEPT !.file_status = IF @[1] = "Saved" THEN Modified(@[2]) ELSE @,
              !.state = "Dirty"]

\* View::extend
View_extend(v) ==
    LET w == View_width(v)
    IN View_touch([v EXCEPT !.animation.frames = Append(@, <<w, 0, w + v.fw, v.fh>>)])

\* View::extend_clone, for index -1 in a view with frames or an index from 0
View_extend_clone(v, index) ==
    LET width == View_width(v)
        i == IF index = -1 THEN Len(v.animation.frames) - 1 ELSE index
        blit == <<"Blit", <<v.fw * i, 0, v.fw * (i + 1), v.fh>>,
                          <<width, 0, width + v.fw, v.fh>>>>
    IN View_extend([v EXCEPT !.ops = Append(@, blit)])

\* View::resize
View_resize(v, fw, fh, nframes) ==
    [v EXCEPT !.fw = fw, !.fh = fh,
              !.animation.frames = [i \in 1..nframes |-> <<(i - 1) * fw, 0, (i - 1) * fw + fw, fh>>]]

\* View::resize_frame
View_resize_frame(v, fw, fh) == View_resize(v, fw, fh, Len(v.animation.frames))

\* View::slice: the remainder by a frame count of 0 panics.
View_slice(v, nframes) ==
    IF nframes = 0 THEN [panic |-> TRUE, v |-> v, val |-> None]
    ELSE IF View_width(v) % nframes = 0
         THEN [panic |-> FALSE, v |-> View_resize(v, View_width(v) \div nframes, v.fh, nframes),
               val |-> TRUE]
         ELSE [panic |-> FALSE, v |-> v, val |-> FALSE]

\* View::shrink
View_shrink(v) ==
    IF Len(v.animation.frames) > 1
    THEN View_touch([v EXCEPT !.animation.frames = SubSeq(@, 1, Len(@) - 1)])
    ELSE v

\* View::okay
View_okay(v) == [v EXCEPT !.state = "Okay", !.ops = <<>>]

\* View::damaged
View_damaged(v) == [v EXCEPT !.state = "Damaged"]

Paths == {"a.png", "b.png"}

FileStatuses == {NoFile} \cup {New(p) : p \in Paths} \cup {Saved("a.png"), Modified("a.png")}

\* A call on the View: its result and what the call returned.
ViewCall(op, args, v, out, panic) ==
    /\ Running
    /\ view # None
    /\ view' = Some(v)
    /\ ret' = Call(op, view[1].id, args, NoView, out, panic)
    /\ UNCHANGED <<data, histVars, replayVars, runVars, lockVars, mgr, issued, brush, disk>>

ViewNew(id, fs, fw, fh) ==
    /\ Running
    /\ view = None
    /\ view' = Some(View_new(id, fs, fw, fh))
    /\ ret' = Call("View::new", id, <<fs, fw, fh>>, NoView, None, FALSE)
    /\ UNCHANGED <<data, histVars, replayVars, runVars, lockVars, mgr, issued, brush, disk>>

ViewSaveAs(id, path) == ViewCall("save_as", <<id, path>>, View_save_as(view[1], id, path), None, FALSE)

ViewTouch == ViewCall("touch", <<>>, View_touch(view[1]), None, FALSE)

ViewExtend == ViewCall("extend", <<>>, View_extend(view[1]), None, FALSE)

ViewExtendClone(index) ==
    ViewCall("extend_clone", <<index>>, View_extend_clone(view[1], index), None, FALSE)

ViewResizeFrame(fw, fh) ==
    ViewCall("resize_frame", <<fw, fh>>, View_resize_frame(view[1], fw, fh), None, FALSE)

ViewResize(fw, fh, nframes) ==
    ViewCall("resize", <<fw, fh, nframes>>, View_resize(view[1], fw, fh, nframes), None, FALSE)

ViewSlice(nframes) ==
    LET r == View_slice(view[1], nframes)
    IN ViewCall("slice", <<nframes>>, r.v, r.val, r.panic)

ViewShrink == ViewCall("shrink", <<>>, View_shrink(view[1]), None, FALSE)

ViewOkay == ViewCall("okay", <<>>, View_okay(view[1]), None, FALSE)

ViewDamaged == ViewCall("damaged", <<>>, View_damaged(view[1]), None, FALSE)

NextView ==
    \/ \E fs \in FileStatuses : ViewNew(1, fs, 2, 1)
    \/ \E id \in {0, 1}, path \in Paths : ViewSaveAs(id, path)
    \/ ViewTouch
    \/ view # None /\ Len(view[1].animation.frames) < MaxViewFrames /\ ViewExtend
    \/ \E index \in {-1, 0} :
          /\ view # None
          /\ Len(view[1].animation.frames) < MaxViewFrames
          /\ view[1].ops = <<>>
          /\ Len(view[1].animation.frames) > 0
          /\ ViewExtendClone(index)
    \/ \E fw \in {1, 2} : view # None /\ ViewResizeFrame(fw, view[1].fh)
    \/ \E nframes \in 0..MaxViewFrames : view # None /\ ViewResize(view[1].fw, view[1].fh, nframes)
    \/ \E nframes \in 0..MaxViewFrames :
          /\ view # None
          /\ nframes > 0 => View_width(view[1]) \div nframes <= MaxFrameWidth
          /\ ViewSlice(nframes)
    \/ ViewShrink
    \/ ViewOkay
    \/ ViewDamaged

SpecView == Init /\ [][NextView]_vars

----------------------------------------------------------------------------
(* Brush.  Points are drawn from the non-negative coordinates of a small    *)
(* strip, where the casts of output between i32 and u32 change nothing.     *)

MaxBrushX == 1
MaxStroke == 2
MaxBrushFrames == 2

\* The extent of a view: frame width, frame height, number of frames.
ViewExtent(fw, fh, nframes) == [fw |-> fw, fh |-> fh, nframes |-> nframes]

NotDrawing == <<"NotDrawing">>
DrawStarted(extent) == <<"DrawStarted", extent>>
Drawing(extent) == <<"Drawing", extent>>
DrawEnded(extent) == <<"DrawEnded", extent>>

abs(n) == IF n < 0 THEN -n ELSE n

\* Brush::is_set
Brush_is_set(b, m) == m \in b.modes

\* Brush::set
Brush_set(b, m) == [b EXCEPT !.modes = @ \cup {m}]

\* Brush::unset
Brush_unset(b, m) == [b EXCEPT !.modes = @ \ {m}]

\* Brush::reset
Brush_reset(b) == [b EXCEPT !.modes = {}]

\* The loop of Brush::line.
RECURSIVE line_loop(_, _, _, _, _, _, _, _)
line_loop(p0, p1, dx, dy, sx, sy, err1, canvas) ==
    LET pushed_p0 == Append(canvas, p0)
        err2 == err1
        in_x == err2 > -dx
        in_y == err2 < dy
    IN IF p0 = p1 THEN pushed_p0
       ELSE line_loop(Point2(IF in_x THEN p0.x + sx ELSE p0.x, IF in_y THEN p0.y + sy ELSE p0.y),
                      p1, dx, dy, sx, sy,
                      err1 - (IF in_x THEN dy ELSE 0) + (IF in_y THEN dx ELSE 0),
                      pushed_p0)

\* Brush::line; the division by 2 rounds towards zero.
Brush_line(p0, p1, canvas) ==
    LET dx == abs(p1.x - p0.x)
        dy == abs(p1.y - p0.y)
        sx == IF p0.x < p1.x THEN 1 ELSE -1
        sy == IF p0.y < p1.y THEN 1 ELSE -1
        err1 == IF dx > dy THEN dx \div 2 ELSE -(dy \div 2)
    IN line_loop(p0, p1, dx, dy, sx, sy, err1, canvas)

\* Vec::dedup: of equal neighbours the first stays.
RECURSIVE dedup(_)
dedup(stroke) ==
    IF Len(stroke) <= 1 THEN stroke
    ELSE IF stroke[Len(stroke)] = stroke[Len(stroke) - 1]
         THEN dedup(SubSeq(stroke, 1, Len(stroke) - 1))
         ELSE Append(dedup(SubSeq(stroke, 1, Len(stroke) - 1)), stroke[Len(stroke)])

\* The loop of Brush::filter from the index i (counted from 1) on.
RECURSIVE filter_loop(_, _, _)
filter_loop(stroke, i, filtered) ==
    IF i > Len(stroke) THEN filtered
    ELSE LET p == stroke[i]
             prev == stroke[i - 1]
         IN IF /\ i + 1 <= Len(stroke)
               /\ LET next == stroke[i + 1]
                  IN \/ (prev.y = p.y /\ next.y # p.y /\ next.x = p.x)
                     \/ (prev.x = p.x /\ next.x # p.x /\ next.y = p.y)
            THEN filter_loop(stroke, i + 2, Append(filtered, stroke[i + 1]))
            ELSE filter_loop(stroke, i + 1, Append(filtered, p))

\* Brush::filter
Brush_filter(stroke) ==
    IF Len(stroke) <= 2 THEN stroke
    ELSE filter_loop(stroke, 2, <<stroke[1]>>)

\* An update that leaves the stroke of the ended drawing in place.
Brush_update_keep(b) ==
    IF b.state[1] = "DrawEnded" THEN [b EXCEPT !.state = NotDrawing] ELSE b

\* Brush::update
Brush_update(b) ==
    IF b.state[1] = "DrawEnded"
    THEN [b EXCEPT !.state = NotDrawing, !.stroke = <<>>]
    ELSE b

\* Brush::draw: the brush it leaves and whether it reached unreachable!().
Brush_draw(b, p) ==
    LET prev == IF b.state[1] = "DrawStarted" THEN p ELSE b.curr
        line == dedup(Brush_line(prev, p, b.stroke))
        drawn == [b EXCEPT !.prev = prev, !.curr = p,
                           !.stroke = IF Brush_is_set(b, "Perfect") THEN Brush_filter(line) ELSE line]
    IN IF b.state[1] = "Drawing" THEN [b |-> drawn, panic |-> FALSE]
       ELSE IF b.state[1] = "DrawStarted"
            THEN [b |-> [drawn EXCEPT !.state = Drawing(b.state[2])], panic |-> FALSE]
            ELSE [b |-> drawn, panic |-> TRUE]

\* Brush::start_drawing
Brush_start_drawing(b, p, color, extent) ==
    Brush_draw([b EXCEPT !.state = DrawStarted(extent), !.color = color, !.stroke = <<>>], p)

\* Brush::stop_drawing
Brush_stop_drawing(b) ==
    IF b.state[1] \in {"DrawStarted", "Drawing"}
    THEN [b |-> [b EXCEPT !.state = DrawEnded(b.state[2])], panic |-> FALSE]
    ELSE [b |-> b, panic |-> TRUE]

\* The copies of one stroke point that Multi mode makes.
Multi_copies(p, fw, nframes) ==
    LET frame_index == p.x \div fw
    IN [i \in 1..(IF nframes > frame_index THEN nframes - frame_index ELSE 0) |->
           Point2(p.x + (i - 1) * fw, p.y)]

\* The pixels of Brush::output.
Brush_pixels(b) ==
    IF b.state[1] \in {"DrawStarted", "Drawing", "DrawEnded"}
    THEN IF Brush_is_set(b, "Multi")
         THEN Flatten([k \in 1..Len(b.stroke) |->
                          Multi_copies(b.stroke[k], b.state[2].fw, b.state[2].nframes)])
         ELSE b.stroke
    ELSE <<>>

\* Brush::shape at scale 1 with Origin::BottomLeft
Brush_shape(b, p) ==
    LET offset == b.size \div 2
    IN <<"Rectangle",
         <<p.x - offset, p.y - offset, p.x + b.size - offset, p.y + b.size - offset>>>>

\* Brush::output
Brush_output(b) ==
    LET pixels == Brush_pixels(b)
    IN [k \in 1..Len(pixels) |-> Brush_shape(b, pixels[k])]

BrushModes == {"Multi", "Perfect"}

BrushPoints == {Point2(x, y) : x \in 0..MaxBrushX, y \in 0..1}

BrushExtents == {ViewExtent(fw, 2, nframes) : fw \in 1..2, nframes \in 1..MaxBrushFrames}

\* A call on the Brush: the brush it leaves and what the call returned.
BrushCall(op, args, b, out, panic) ==
    /\ Running
    /\ brush' = b
    /\ ret' = Call(op, 0, args, NoView, out, panic)
    /\ UNCHANGED <<data, histVars, replayVars, runVars, lockVars, mgr, issued, view, disk>>

BrushSet(m) == BrushCall("set", <<m>>, Brush_set(brush, m), ~Brush_is_set(brush, m), FALSE)

BrushUnset(m) == BrushCall("unset", <<m>>, Brush_unset(brush, m), Brush_is_set(brush, m), FALSE)

BrushReset == BrushCall("reset", <<>>, Brush_reset(brush), None, FALSE)

BrushUpdate == BrushCall("update", <<>>, Brush_update(brush), None, FALSE)

BrushStartDrawing(p, color, extent) ==
    LET r == Brush_start_drawing(brush, p, color, extent)
    IN BrushCall("start_drawing", <<p, color, extent>>, r.b, None, r.panic)

BrushDraw(p) ==
    LET r == Brush_draw(brush, p)
    IN BrushCall("draw", <<p>>, r.b, None, r.panic)

BrushStopDrawing ==
    LET r == Brush_stop_drawing(brush)
    IN BrushCall("stop_drawing", <<>>, r.b, None, r.panic)

BrushOutput == BrushCall("output", <<>>, brush, Brush_output(brush), FALSE)

NextBrush ==
    \/ \E m \in BrushModes : BrushSet(m)
    \/ \E m \in BrushModes : BrushUnset(m)
    \/ BrushReset
    \/ BrushUpdate
    \/ \E p \in BrushPoints, extent \in BrushExtents : BrushStartDrawing(p, Red, extent)
    \/ \E p \in BrushPoints : Len(brush.stroke) < MaxStroke /\ BrushDraw(p)
    \/ BrushStopDrawing
    \/ BrushOutput

SpecBrush == Init /\ [][NextBrush]_vars

----------------------------------------------------------------------------
(* ViewManager.  Session::MAX_VIEWS, at which the list of recently used     *)
(* views is cut, is not defined in these sources: the list is cut at        *)
(* MaxLru.  A debug build is one that checks debug assertions and           *)
(* arithmetic overflow; a release build checks neither.                     *)

MaxLru == 2
MaxMgrViews == 2
MaxIssued == 2

Max(a, b) == IF a > b THEN a ELSE b

\* ViewId, as add returns it.
ViewId(id) == <<"ViewId", id>>

\* ViewManager::gen_id: the u16 counter after id + 1, and the id returned.
gen_id(m, debug_assertions) ==
    LET id == m.next_id
    IN IF id + 1 > U16Max /\ debug_assertions
       THEN [m |-> m, val |-> None, panic |-> TRUE]
       ELSE [m |-> [m EXCEPT !.next_id = (id + 1) % (U16Max + 1)], val |-> ViewId(id), panic |-> FALSE]

\* ViewManager::add
ViewManager_add(m, debug_assertions, fs, w, h) ==
    LET g == gen_id(m, debug_assertions)
    IN IF g.panic THEN g
       ELSE [g EXCEPT !.m.views = Insert(@, g.val[2], View_new(g.val[2], fs, w, h))]

\* ViewManager::last
ViewManager_last(m) == IF m.lru = <<>> THEN None ELSE Some(m.lru[1])

\* ViewManager::activate
ViewManager_activate(m, debug_assertions, id) ==
    IF debug_assertions /\ id \notin DOMAIN m.views
    THEN [m |-> m, val |-> None, panic |-> TRUE]
    ELSE IF m.active_id = id THEN [m |-> m, val |-> None, panic |-> FALSE]
    ELSE [m |-> [m EXCEPT !.active_id = id,
                          !.lru = SubSeq(<<id>> \o @, 1, Min(Len(@) + 1, MaxLru))],
          val |-> None, panic |-> FALSE]

\* VecDeque::retain(|v| v != id)
RECURSIVE retain(_, _)
retain(lru, id) ==
    IF lru = <<>> THEN <<>>
    ELSE IF lru[1] = id THEN retain(Tail(lru), id)
         ELSE <<lru[1]>> \o retain(Tail(lru), id)

\* ViewManager::remove
ViewManager_remove(m, debug_assertions, id) ==
    IF m.lru = <<>> THEN [m |-> m, val |-> None, panic |-> TRUE]
    ELSE LET removed == [m EXCEPT !.views = [k \in DOMAIN @ \ {id} |-> @[k]],
                                  !.lru = retain(@, id)]
         IN IF ViewManager_last(removed) # None
            THEN ViewManager_activate(removed, debug_assertions, ViewManager_last(removed)[1])
            ELSE [m |-> [removed EXCEPT !.active_id = 0], val |-> None, panic |-> FALSE]

\* The manager in which view 1 was added and activated and the views
\* 2 .. n - 1 were added and removed after it; for n = 1 the new manager.
ManagerAt(n) ==
    IF n = 1 THEN ViewManager_new
    ELSE [active_id |-> 1, next_id |-> n, lru |-> <<1>>,
          views |-> Insert(NoViews, 1, View_new(1, NoFile, 1, 1))]

\* The counter values from which the manager is followed.
CounterStarts == {1, U16Max - 1}

InitMgr ==
    /\ data = NoViews
    /\ screens = <<>>
    /\ last_verified = None
    /\ ret = Call("new", 0, <<>>, NoView, None, FALSE)
    /\ pushed = NoViews
    /\ max_id = NoViews
    /\ saved = NoViews
    /\ recorded = <<>>
    /\ replayed = <<>>
    /\ outcomes = <<>>
    /\ appended = <<>>
    /\ rwlock = [readers |-> {}, writer |-> {}]
    /\ pc = [t \in Threads |-> "idle"]
    /\ pending = [t \in Threads |-> None]
    /\ committed = NoViews
    /\ \E n \in CounterStarts :
          /\ mgr = ManagerAt(n)
          /\ issued = n - 1
    /\ view = None
    /\ brush = Brush_default
    /\ disk = None

\* A call on the ViewManager; issued is the greatest id add has returned.
ManagerCall(op, args, r) ==
    /\ Running
    /\ mgr' = r.m
    /\ issued' = IF op = "add" /\ ~r.panic THEN Max(issued, r.val[2]) ELSE issued
    /\ ret' = Call(op, 0, args, NoView, r.val, r.panic)
    /\ UNCHANGED <<data, histVars, replayVars, runVars, lockVars, view, brush, disk>>

ManagerAdd(debug_assertions, fs, w, h) ==
    ManagerCall("add", <<debug_assertions, fs, w, h>>,
                ViewManager_add(mgr, debug_assertions, fs, w, h))

ManagerActivate(debug_assertions, id) ==
    ManagerCall("activate", <<debug_assertions, id>>,
                ViewManager_activate(mgr, debug_assertions, id))

ManagerRemove(debug_assertions, id) ==
    ManagerCall("remove", <<debug_assertions, id>>,
                ViewManager_remove(mgr, debug_assertions, id))

NextMgr ==
    \/ \E debug_assertions \in BOOLEAN :
          /\ Cardinality(DOMAIN mgr.views) < MaxMgrViews
          /\ mgr.next_id <= MaxIssued \/ mgr.next_id > U16Max - MaxIssued
          /\ ManagerAdd(debug_assertions, NoFile, 1, 1)
    \/ \E debug_assertions \in BOOLEAN, id \in DOMAIN mgr.views :
          ManagerActivate(debug_assertions, id)
    \/ \E debug_assertions \in BOOLEAN, id \in DOMAIN mgr.views :
          ManagerRemove(debug_assertions, id)

SpecMgr == InitMgr /\ [][NextMgr]_vars

----------------------------------------------------------------------------
(* A view, its history and its file: the view is edited, undone and redone  *)
(* and saved to one path, each save being save_view followed by save_as     *)
(* with the snapshot id that save_view returned.                            *)

MaxSavedSnapshots == 3

\* View::is_snapshot_saved
View_is_snapshot_saved(v, id) == v.saved_snapshot = Some(id)

\* ResourceManager::save_view without its locking and its I/O errors: the
\* image written, and the snapshot id and number of pixels returned.
save_view(d, id) ==
    LET r == get_snapshot_mut(d, id)
    IN IF r.panic THEN [panic |-> TRUE, image |-> None, val |-> None]
       ELSE LET snapshot == r.val[1]
                w == snapshot.fw * snapshot.nframes
                h == snapshot.fh
            IN [panic |-> FALSE, image |-> gif_image(r.val[2]),
                val |-> Ok(<<snapshot.id, w * h>>)]

\* save_view(id, path), then save_as on the view with the id returned
SaveViewAs(id, path) ==
    /\ Running
    /\ view # None
    /\ LET r == save_view(data, id)
       IN /\ ret' = Call("save_view", id, <<path>>, At(data, id), r.val, r.panic)
          /\ IF r.panic THEN UNCHANGED <<view, disk>>
             ELSE LET v == View_save_as(view[1], r.val[2][1], path)
                  IN /\ view' = Some(v)
                     /\ disk' = IF v = View_saved(view[1], r.val[2][1], path)
                                THEN Some(r.image) ELSE disk
    /\ UNCHANGED <<data, histVars, replayVars, runVars, lockVars, mgr, issued, brush>>

SavedPixels == {Red, Transparent}

NextSaved ==
    \/ ViewNew(1, NoFile, 1, 1)
    \/ 1 \notin DOMAIN data /\ AddBlankView(1, 1, 1)
    \/ \E pixels \in SavedPixels :
          /\ 1 \in DOMAIN data
          /\ data[1].snapshot + 2 <= MaxSavedSnapshots
          /\ PushSnapshot(1, pixels, 1, 1, 1)
    \/ PrevSnapshot(1)
    \/ NextSnapshot(1)
    \/ ViewTouch
    \/ 1 \in DOMAIN data /\ SaveViewAs(1, "a.png")

SpecSaved == Init /\ [][NextSaved]_vars

----------------------------------------------------------------------------
(* View history: claims. *)

\* The decompressed pixels of every snapshot of a view, in order.
Contents(vr) == [i \in 1..Len(vr.snapshots) |-> Snapshot_pixels(vr.snapshots[i])]

\* C1: every view history holds at least one snapshot, its cursor is an
\* index of the sequence, and a lookup of the current snapshot of a view in
\* the table never fails.
HistoryInvariant ==
    /\ \A id \in DOMAIN data :
          /\ Len(data[id].snapshots) >= 1
          /\ 0 <= data[id].snapshot
          /\ data[id].snapshot < Len(data[id].snapshots)
          /\ ~current_snapshot(data[id]).panic
    /\ (ret.op = "get_snapshot" /\ ret.at # NoView) => ~ret.panic

\* C1 witness: the current snapshot was read in the middle of a history of
\* three or more snapshots.
HistoryInvariantWitness ==
    /\ ret.op = "get_snapshot"
    /\ ~ret.panic
    /\ ret.id \in DOMAIN data
    /\ Len(data[ret.id].snapshots) >= 3
    /\ data[ret.id].snapshot = 1

\* C2: the history holds exactly the buffers pushed and not cut off: a push
\* at cursor c leaves the old snapshots 0..c followed by the new one, with
\* the cursor on it, and a redo then returns nothing.
BranchTruncation ==
    \A id \in DOMAIN data :
        /\ Contents(data[id]) = [i \in 1..Len(pushed[id]) |-> Align(pushed[id][i])]
        /\ (ret.op = "push_snapshot" /\ ret.id = id) =>
              /\ Len(data[id].snapshots) = ret.at[1] + 2
              /\ data[id].snapshot = ret.at[1] + 1
              /\ Contents(data[id])[Len(data[id].snapshots)] = Align(ret.args[1])
              /\ next_snapshot(data[id]).val = None
              /\ next_snapshot(data[id]).vr = data[id]

\* C2 witness: the initial snapshot and p1, p2, p3 were there, one was
\* undone, and p4 was pushed.
BranchTruncationWitness ==
    /\ ret.op = "push_snapshot"
    /\ ret.at = <<2, 4>>
    /\ ret.id \in DOMAIN data
    /\ Len(data[ret.id].snapshots) = 4
    /\ data[ret.id].snapshot = 3

\* C3: the live pixels are those pushed at the cursor's position, the k-th
\* undo in a row started from position tail - (k - 1), and whenever the
\* cursor is back at a position an undo left, cursor and live pixels are
\* what that undo found.
UndoRedoSymmetry ==
    \A id \in DOMAIN data :
        LET vr == data[id]
            d == Depth(vr)
        IN /\ vr.snapshot + 1 \in 1..Len(pushed[id])
           /\ vr.pixels = Align(pushed[id][vr.snapshot + 1])
           /\ \A j \in 1..Len(saved[id]) :
                 saved[id][j].snapshot = Len(vr.snapshots) - j
           /\ (d >= 0 /\ d + 1 <= Len(saved[id])) =>
                 saved[id][d + 1] = [snapshot |-> vr.snapshot, pixels |-> vr.pixels]

\* C3 witness: two undos and then two redos brought a view back to its tail.
UndoRedoSymmetryWitness ==
    /\ ret.op = "next_snapshot"
    /\ ret.val # None
    /\ ret.id \in DOMAIN data
    /\ Len(saved[ret.id]) >= 2
    /\ Depth(data[ret.id]) = 0
    /\ saved[ret.id][1].pixels # saved[ret.id][2].pixels

\* The pixel cache of a view is the decompressed snapshot at its cursor.
CurrentPairConsistent(vr) ==
    LET s == Get(vr.snapshots, vr.snapshot)
    IN s # None /\ vr.pixels = Snapshot_pixels(s[1])

\* C4: in every view the cached pixels are the decompressed content of the
\* snapshot at the cursor, get_snapshot returns that snapshot with that
\* cache, and it changes nothing.
CurrentPair ==
    /\ [](/\ \A id \in DOMAIN data : CurrentPairConsistent(data[id])
          /\ (ret.op = "get_snapshot" /\ ret.id \in DOMAIN data) =>
                /\ ret.val = current_snapshot(data[ret.id]).val
                /\ Len(ret.val) = 2
                /\ ret.val[2] = Snapshot_pixels(ret.val[1]))
    /\ [][ret'.op = "get_snapshot" => UNCHANGED <<data, screens, last_verified>>]_vars

\* C4 witness: the pair was read after an undo, with a snapshot of other
\* content ahead of the cursor.
CurrentPairWitness ==
    /\ ret.op = "get_snapshot"
    /\ ret.id \in DOMAIN data
    /\ Depth(data[ret.id]) = 1
    /\ Contents(data[ret.id])[Len(data[ret.id].snapshots)] # data[ret.id].pixels

\* C5: every push assigns an id one more than the largest id assigned so
\* far in its history, so no id is assigned twice.
SnapshotIdMonotonic ==
    [][\A id \in DOMAIN data :
          (ret'.op = "push_snapshot" /\ ret'.id = id) =>
              Last(data'[id].snapshots).id = max_id[id] + 1]_vars

----------------------------------------------------------------------------
(* Replay: claims. *)

\* C6: verify_screen returns Stale(h) when h, the hash of the frame, is the
\* hash verified last; otherwise EOF when the queue is empty; otherwise
\* Okay(h) when the head of the queue is h and Failure(h, head) when not.
VerifyOutcomes ==
    [][ret'.op = "verify_screen" =>
          LET h == hash(ret'.args[1])
          IN /\ ~ret'.panic
             /\ ret'.val = IF Some(h) = last_verified THEN Stale(h)
                           ELSE IF screens = <<>> THEN EOF
                           ELSE IF Head(screens) = h THEN Okay(h)
                           ELSE Failure(h, Head(screens))]_vars

\* C6 witness: a frame was verified against a different expected hash.
VerifyOutcomesWitness ==
    /\ ret.op = "verify_screen"
    /\ ret.val[1] = "Failure"
    /\ ret.val[2] = hash(ret.args[1])
    /\ ret.val[3] = hash(FrameA)
    /\ ret.val[2] # ret.val[3]

\* C7: a Stale verify leaves the queue and the last verified hash alone;
\* Okay and Failure take exactly the head off the queue, EOF leaves it
\* empty, and all three set the last verified hash to the frame's; no
\* verify changes a view.
VerifyEffect ==
    [][ret'.op = "verify_screen" =>
          LET h == hash(ret'.args[1])
              tag == ret'.val[1]
          IN /\ data' = data
             /\ tag \in {"Stale", "Okay", "Failure", "EOF"}
             /\ tag = "Stale" =>
                   screens' = screens /\ last_verified' = last_verified
             /\ tag \in {"Okay", "Failure"} =>
                   /\ screens # <<>>
                   /\ screens' = Tail(screens)
                   /\ last_verified' = Some(h)
             /\ tag = "EOF" =>
                   /\ screens = <<>>
                   /\ screens' = <<>>
                   /\ last_verified' = Some(h)]_vars

\* C7 witness: a frame was found stale while expected hashes were waiting
\* and a view was open.
VerifyEffectWitness ==
    /\ ret.op = "verify_screen"
    /\ ret.val[1] = "Stale"
    /\ Len(screens) >= 2
    /\ last_verified = Some(ret.val[2])
    /\ DOMAIN data # {}

\* The hashes of a run of frames.
Hashes(frames) == [k \in 1..Len(frames) |-> hash(frames[k])]

\* A run of hashes without the entries that repeat their predecessor.
RECURSIVE Collapse(_)
Collapse(hs) ==
    IF hs = <<>> THEN <<>>
    ELSE LET front == Collapse(SubSeq(hs, 1, Len(hs) - 1))
         IN IF Len(hs) > 1 /\ hs[Len(hs)] = hs[Len(hs) - 1] THEN front
            ELSE Append(front, hs[Len(hs)])

\* C8: a queue built by record_screen alone holds the hash of every
\* recorded frame that differs from the hash recorded just before it, in
\* order, so no two neighbours in it are equal.
RecordDedup ==
    replayed = <<>> =>
        /\ screens = Collapse(Hashes(recorded))
        /\ \A i \in 1..(Len(screens) - 1) : screens[i] # screens[i + 1]

\* C8 witness: A, A, B, A were recorded and the queue holds A, B, A.
RecordDedupWitness ==
    /\ replayed = <<>>
    /\ recorded = <<FrameA, FrameA, FrameB, FrameA>>
    /\ screens = <<hash(FrameA), hash(FrameB), hash(FrameA)>>

\* C9: while the replay follows the recording, frame k is reported Stale
\* when it has the hash of frame k - 1 and Okay when not, and once the whole
\* recording is replayed the queue is empty.
RecordReplayAgreement ==
    (Len(replayed) <= Len(recorded) /\ Mismatches(replayed, recorded) = {}) =>
        /\ Len(outcomes) = Len(replayed)
        /\ \A k \in 1..Len(replayed) :
              outcomes[k] =
                  IF k > 1 /\ hash(replayed[k]) = hash(replayed[k - 1])
                  THEN Stale(hash(replayed[k]))
                  ELSE Okay(hash(replayed[k]))
        /\ Len(replayed) = Len(recorded) => screens = <<>>

\* C9 witness: A, A, B, C recorded and replayed.
RecordReplayAgreementWitness ==
    /\ recorded = <<FrameA, FrameA, FrameB, FrameC>>
    /\ replayed = recorded
    /\ outcomes = <<Okay(hash(FrameA)), Stale(hash(FrameA)),
                    Okay(hash(FrameB)), Okay(hash(FrameC))>>
    /\ screens = <<>>

\* The first n entries of a sequence.
Prefix(s, n) == SubSeq(s, 1, Min(n, Len(s)))

\* recorded is A, A, B, C with three different hashes, and the replay has
\* reached its third frame X following A, A, X, C.
MismatchRun ==
    /\ Len(recorded) = 4
    /\ recorded[1] = recorded[2]
    /\ Cardinality({hash(recorded[1]), hash(recorded[3]), hash(recorded[4])}) = 3
    /\ Len(replayed) >= 3
    /\ Prefix(replayed, 2) = Prefix(recorded, 2)
    /\ Len(replayed) >= 4 => replayed[4] = recorded[4]

\* C10 as claimed: for X with a hash other than B's the replay of
\* A, A, X, C gives Okay, Stale, Failure(hash(X), hash(B)), Okay, the queue
\* is then empty, and any fifth frame gives EOF.
MismatchExhaustionClaimed ==
    (MismatchRun /\ hash(replayed[3]) # hash(recorded[3])) =>
        LET hA == hash(recorded[1])
            hB == hash(recorded[3])
            hC == hash(recorded[4])
            hX == hash(replayed[3])
        IN /\ Prefix(outcomes, 5) =
                 Prefix(<<Okay(hA), Stale(hA), Failure(hX, hB), Okay(hC), EOF>>,
                        Len(replayed))
           /\ Len(replayed) >= 4 => screens = <<>>

\* C10 as amended: the same for X with a hash other than those of A, B and
\* C; the fifth frame gives EOF unless it has the hash of C, and then Stale.
MismatchExhaustion ==
    LET hA == hash(recorded[1])
        hB == hash(recorded[3])
        hC == hash(recorded[4])
        hX == hash(replayed[3])
    IN (MismatchRun /\ hX \notin {hA, hB, hC}) =>
           /\ Prefix(outcomes, 5) =
                 Prefix(<<Okay(hA), Stale(hA), Failure(hX, hB), Okay(hC),
                          IF Len(replayed) >= 5 /\ hash(replayed[5]) = hC
                          THEN Stale(hC) ELSE EOF>>,
                        Len(replayed))
           /\ Len(replayed) >= 4 => screens = <<>>

\* C10 witness: A, A, B, C recorded; A, A, X, C and then B replayed.
MismatchExhaustionWitness ==
    /\ recorded = <<FrameA, FrameA, FrameB, FrameC>>
    /\ replayed = <<FrameA, FrameA, FrameX, FrameC, FrameB>>
    /\ outcomes = <<Okay(hash(FrameA)), Stale(hash(FrameA)),
                    Failure(hash(FrameX), hash(FrameB)), Okay(hash(FrameC)), EOF>>
    /\ screens = <<>>

----------------------------------------------------------------------------
(* View history: boundaries, frame conditions, fresh views. *)

\* C12: an undo at cursor 0 and a redo at the last index return nothing and
\* leave the view as it was; any other undo moves the cursor one down and
\* any other redo one up, and each returns the snapshot then at the cursor.
BoundaryNoOps ==
    [][\A id \in DOMAIN data :
          LET c == data[id].snapshot
              n == Len(data[id].snapshots)
          IN /\ (ret'.op = "prev_snapshot" /\ ret'.id = id) =>
                   /\ id \in DOMAIN data'
                   /\ IF c = 0
                      THEN ret'.val = None /\ data'[id] = data[id]
                      ELSE /\ data'[id].snapshot = c - 1
                           /\ ret'.val = Get(data'[id].snapshots, c - 1)
                           /\ ret'.val # None
             /\ (ret'.op = "next_snapshot" /\ ret'.id = id) =>
                   /\ id \in DOMAIN data'
                   /\ IF c = n - 1
                      THEN ret'.val = None /\ data'[id] = data[id]
                      ELSE /\ data'[id].snapshot = c + 1
                           /\ ret'.val = Get(data'[id].snapshots, c + 1)
                           /\ ret'.val # None]_vars

\* C12 witness: an undo was refused at the first of three snapshots.
BoundaryNoOpsWitness ==
    /\ ret.op = "prev_snapshot"
    /\ ret.val = None
    /\ ret.at = <<0, 3>>
    /\ ret.id \in DOMAIN data
    /\ data[ret.id].snapshot = 0
    /\ Len(data[ret.id].snapshots) = 3

FreshView ==
    /\ \A id \in DOMAIN data :
          (ret.op \in {"add_view", "add_blank_view"} /\ ret.id = id) =>
              /\ Len(data[id].snapshots) = 1
              /\ data[id].pixels =
                    IF ret.op = "add_view" THEN Align(ret.args[3])
                    ELSE Align(Zeroes(ret.args[1] * ret.args[2] * 4))
    /\ \A id \in DOMAIN data :
          Len(data[id].snapshots) = 1 =>
              /\ data[id].snapshot = 0
              /\ data[id].snapshots[1].id = 0
              /\ data[id].pixels = Snapshot_pixels(data[id].snapshots[1])
              /\ data[id].pixels = Align(pushed[id][1])
              /\ prev_snapshot(data[id]) = [vr |-> data[id], val |-> None]
              /\ next_snapshot(data[id]) = [vr |-> data[id], val |-> None]

\* C17 witness: an undo was refused on a view added with a red pixel.
FreshViewWitness ==
    /\ ret.op = "prev_snapshot"
    /\ ret.val = None
    /\ ret.id \in DOMAIN data
    /\ Len(data[ret.id].snapshots) = 1
    /\ data[ret.id].pixels = Align(Red)

\* C18: remove_view takes the named view out of the table and leaves every
\* other view and the replay state as they were, and changes nothing when
\* the table has no such view; get_snapshot and get_snapshot_mut panic
\* exactly for the ids the table does not have; get_view_mut returns nothing
\* for such an id, and the view otherwise, without failing.
ViewLookup ==
    [][/\ ret'.op = "remove_view" =>
             /\ ~ret'.panic
             /\ DOMAIN data' = DOMAIN data \ {ret'.id}
             /\ \A o \in DOMAIN data' : data'[o] = data[o]
             /\ UNCHANGED <<screens, last_verified>>
             /\ ret'.id \notin DOMAIN data => data' = data
       /\ ret'.op \in {"get_snapshot", "get_snapshot_mut"} =>
             /\ ret'.panic <=> ret'.id \notin DOMAIN data
             /\ ~ret'.panic => ret'.val = <<data[ret'.id].snapshots[data[ret'.id].snapshot + 1],
                                            data[ret'.id].pixels>>
       /\ ret'.op = "get_view_mut" =>
             /\ ~ret'.panic
             /\ ret'.val = None <=> ret'.id \notin DOMAIN data
             /\ ret'.id \in DOMAIN data => ret'.val = Some(data[ret'.id])]_vars

\* C18 witness: the higher of two views was removed; the lower one, with
\* two snapshots, and a loaded hash are still there.
ViewLookupWitness ==
    /\ ret.op = "remove_view"
    /\ ret.id = 2
    /\ ret.at # NoView
    /\ DOMAIN data = {1}
    /\ Len(data[1].snapshots) = 2
    /\ screens # <<>>

----------------------------------------------------------------------------
(* Hash text: claims. *)

LowerHex == (48..57) \cup (97..102)

\* C19: from_str returns an error, and does not panic, for every text that
\* is not eight lowercase hex digits: odd length, a byte outside 0-9 and
\* a-f, or an even number of digits that decode to fewer or more than four
\* bytes, the empty text among them.
ParseErrors ==
    (/\ ret.op = "from_str"
     /\ ~(Len(ret.args[1]) = 8 /\ \A i \in 1..8 : ret.args[1][i] \in LowerHex))
        => /\ ~ret.panic
           /\ ret.val[1] = "Err"

\* C20: fmt gives eight lowercase hex digits, from_str of them gives the
\* hash back, and fmt of the hash from_str made of a text gives the text
\* back.
HashRoundTrip ==
    [][/\ ret'.op = "fmt" =>
             /\ Len(ret'.val) = 8
             /\ \A i \in 1..8 : ret'.val[i] \in LowerHex
       /\ (ret.op = "fmt" /\ ret'.op = "from_str") =>
             /\ ~ret'.panic
             /\ ret'.val = Ok(ret.args[1])
       /\ (ret.op = "from_str" /\ ret'.op = "fmt") =>
             ret'.val = ret.args[1]]_vars

\* C20 witness: the hash 00 0a ab ff came back from its text.
HashRoundTripWitness ==
    /\ ret.op = "from_str"
    /\ ret.args[1] = <<48, 48, 48, 97, 97, 98, 102, 102>>
    /\ ret.val = Ok(<<0, 10, 171, 255>>)

----------------------------------------------------------------------------
(* Replay: frame order. *)

\* The verify_screen calls that were not Stale, each with its frame and its
\* outcome, in order.
Compared ==
    SelectSeq([i \in 1..Len(outcomes) |-> <<replayed[i], outcomes[i]>>],
              LAMBDA c : c[2][1] # "Stale")

\* C11: with the queue built as e1..en, the k-th verify_screen call that is
\* not Stale is compared with ek and takes ek off the queue, for k up to n,
\* and every later one finds the end of the queue; the queue is always what
\* is left of e1..en, so load_screen and record_screen add at the tail and
\* nothing is skipped, reordered or compared twice.
StrictFrameOrder ==
    /\ \A k \in 1..Len(Compared) :
          LET actual == hash(Compared[k][1])
          IN Compared[k][2] =
                IF k > Len(appended) THEN EOF
                ELSE IF actual = appended[k] THEN Okay(actual)
                ELSE Failure(actual, appended[k])
    /\ screens = SubSeq(appended, Min(Len(Compared), Len(appended)) + 1, Len(appended))

\* C11 witness: a queue of a recorded, a loaded and a recorded hash was
\* used up by three compared frames, with a stale frame among them.
StrictFrameOrderWitness ==
    /\ appended = <<hash(FrameA), <<222, 173, 190, 239>>, hash(FrameB)>>
    /\ Len(recorded) = 2
    /\ Len(Compared) = 3
    /\ Len(outcomes) = 4
    /\ screens = <<>>

----------------------------------------------------------------------------
(* Threads: claims. *)

\* The positions of a thread that is in a call under the write guard.
Writing == {"write", "push_truncated", "push_cursor", "push_pixels", "file"}

\* C14: over all clones of the manager, at most one thread holds the write
\* guard, and while one does no thread holds a read guard; a thread is in a
\* call that changes the table only while it holds the write guard, and
\* reads it only while it holds a guard.
WriterExclusion ==
    /\ Cardinality(rwlock.writer) <= 1
    /\ rwlock.writer # {} => rwlock.readers = {}
    /\ \A t \in Threads :
          /\ pc[t] \in Writing <=> t \in rwlock.writer
          /\ pc[t] = "read" <=> t \in rwlock.readers
    /\ \A t \in Threads, u \in Threads :
          (t # u /\ pc[t] \in Writing) => pc[u] = "idle"

\* C14 witness: one thread is in the middle of a push while the other,
\* which read a snapshot before, waits.
WriterExclusionWitness ==
    /\ rwlock.writer = {2}
    /\ pc[2] = "push_cursor"
    /\ pc[1] = "idle"
    /\ ret.op = "get_snapshot"

\* C15: an export holds the write guard only while it copies the pixels and
\* has dropped it by the time the file is written, so other threads can
\* take the lock during the file I/O.
ExportReleasesLock ==
    \A t \in Threads :
        pc[t] = "file" => /\ t \notin rwlock.writer
                          /\ can_lock(rwlock)

\* C16: a thread that reads under the read guard sees the table as the
\* last call under the write guard left it, never a state from the middle
\* of push_snapshot: while a read guard is held the table is the committed
\* one, and every get_snapshot returns the current pair of the committed
\* table.
NoTornReads ==
    /\ [](rwlock.readers # {} => data = committed)
    /\ [][\A t \in Threads :
             (pc[t] = "read" /\ pc'[t] = "idle") =>
                 /\ ret'.op = "get_snapshot"
                 /\ [panic |-> ret'.panic, val |-> ret'.val]
                       = get_snapshot(committed, ret'.id)
                 /\ ret'.id \in DOMAIN committed =>
                       /\ ~ret'.panic
                       /\ ret'.val[2] = Snapshot_pixels(ret'.val[1])]_vars

\* C16 witness: after a push of two frames, one thread read the new current
\* pair while the other still holds a read guard.
NoTornReadsWitness ==
    /\ ret.op = "get_snapshot"
    /\ ~ret.panic
    /\ ret.at = <<1, 2>>
    /\ ret.val[1].id = 1
    /\ ret.val[2] = Align(Red \o Transparent)
    /\ rwlock.readers # {}
    /\ \E t \in Threads : pc[t] = "read"

----------------------------------------------------------------------------
(* Codec and snapshot contents: claims. *)

\* The bytes of a sequence of pixels.
RECURSIVE Unalign(_)
Unalign(pxs) ==
    IF pxs = <<>> THEN <<>>
    ELSE <<pxs[1].b, pxs[1].g, pxs[1].r, pxs[1].a>> \o Unalign(Tail(pxs))

Stored(d) == UNION {{d[id].snapshots[i] : i \in 1..Len(d[id].snapshots)} : id \in DOMAIN d}

\* C22 as claimed: every stored snapshot has size fw * fh * nframes * 4.
SnapshotSizeClaimed ==
    \A s \in Stored(data) : s.size = s.fw * s.fh * s.nframes * 4

\* C22: the size of every stored snapshot is the length of the buffer it
\* holds.  An add_view, add_blank_view or push_snapshot with a buffer of
\* fw * fh * nframes * 4 bytes (nframes = 1 for a new view) succeeds and
\* stores a snapshot of that size; with any other buffer it either panics
\* and stores no snapshot (debug assertions) or stores a snapshot whose size
\* is the buffer's length (no debug assertions).
SnapshotSize ==
    /\ [](\A s \in Stored(data) : s.size = Len(Decompress(s.pixels)))
    /\ [][(ret'.op \in {"add_view", "add_blank_view", "push_snapshot"}
           /\ (ret' # ret \/ data' # data)) =>
             LET id == ret'.id
                 pixels == IF ret'.op = "add_blank_view"
                           THEN Zeroes(ret'.args[1] * ret'.args[2] * 4)
                           ELSE IF ret'.op = "add_view" THEN ret'.args[3]
                           ELSE ret'.args[1]
                 fw == IF ret'.op = "push_snapshot" THEN ret'.args[2] ELSE ret'.args[1]
                 fh == IF ret'.op = "push_snapshot" THEN ret'.args[3] ELSE ret'.args[2]
                 nframes == IF ret'.op = "push_snapshot" THEN ret'.args[4] ELSE 1
                 expected == fw * fh * nframes * 4
             IN IF ret'.panic
                THEN /\ Len(pixels) # expected
                     /\ Stored(data') \subseteq Stored(data)
                ELSE /\ id \in DOMAIN data'
                     /\ Last(data'[id].snapshots).size = Len(pixels)
                     /\ Last(data'[id].snapshots).nframes = nframes
                     /\ Len(pixels) = expected =>
                           Last(data'[id].snapshots).size = expected]_vars

\* C22 witness: a push of one pixel as two frames was rejected, and nothing
\* but snapshots of the expected size is stored.
SnapshotSizeWitness ==
    /\ ret.op = "push_snapshot"
    /\ ret.panic
    /\ ret.args[4] = 2
    /\ Stored(data) # {}
    /\ \A s \in Stored(data) : s.size = s.fw * s.fh * s.nframes * 4

----------------------------------------------------------------------------
(* Animation export: claims. *)

\* C23: the delay written to every exported frame is floor(d / 10) for a
\* delay of d ms, and 65535 when that is more than 65535.
FrameDelay ==
    (ret.op = "save_view_gif" /\ ~ret.panic) =>
        \A k \in 1..Len(ret.val.file) :
            ret.val.file[k].delay =
                IF ret.args[1] \div 10 > 65535 THEN 65535 ELSE ret.args[1] \div 10

\* C23 witness: two frames were written with a delay of 1000 s.
FrameDelayWitness ==
    /\ ret.op = "save_view_gif"
    /\ ret.args[1] = 1000000
    /\ Len(ret.val.file) = 2
    /\ ret.val.file[2].delay = 65535

\* C29: frame k of an exported strip is fh rows of fw pixels, its row r
\* being the strip's pixels at row r, columns k * fw .. (k + 1) * fw - 1,
\* in order, so every pixel of the strip is in one frame; the byte count
\* returned is fw * fh * 4 * nframes.
StripToFrames ==
    (ret.op = "save_view_gif" /\ ~ret.panic) =>
        LET vr == data[ret.id]
            s == vr.snapshots[vr.snapshot + 1]
            file == ret.val.file
        IN /\ Len(file) = s.nframes
           /\ ret.val.ok = Ok(s.fw * s.fh * 4 * s.nframes)
           /\ Len(vr.pixels) = s.fw * s.nframes * s.fh
           /\ \A k \in 0..(s.nframes - 1) :
                 /\ Len(file[k + 1].buffer) = s.fw * s.fh * 4
                 /\ \A r \in 0..(s.fh - 1), x \in 0..(s.fw - 1) :
                       SubSeq(file[k + 1].buffer, (r * s.fw + x) * 4 + 1, (r * s.fw + x) * 4 + 4)
                           = Rgba(vr.pixels[r * (s.fw * s.nframes) + k * s.fw + x + 1])

\* C29 witness: a strip of two frames of two by two pixels was exported.
StripToFramesWitness ==
    /\ ret.op = "save_view_gif"
    /\ ~ret.panic
    /\ Len(ret.val.file) = 2
    /\ ret.val.file[2].width = 2
    /\ ret.val.file[2].height = 2
    /\ ret.val.ok = Ok(32)

----------------------------------------------------------------------------
(* View history: snapshot ids. *)

\* C30: the snapshot at index i of a history has id i, so the ids of a
\* history are 0, 1, 2, .. without gaps or repeats, the id of the current
\* snapshot is the cursor, and an undo or a redo that moves returns a
\* snapshot whose id is one less or one more than the id left.
PositionalIds ==
    /\ \A id \in DOMAIN data :
          /\ \A i \in 1..Len(data[id].snapshots) : data[id].snapshots[i].id = i - 1
          /\ current_snapshot(data[id]).val[1].id = data[id].snapshot
    /\ (ret.op = "prev_snapshot" /\ ret.val # None) => ret.val[1].id = ret.at[1] - 1
    /\ (ret.op = "next_snapshot" /\ ret.val # None) => ret.val[1].id = ret.at[1] + 1

\* C30 witness: after two undos in a history of four, a push made the
\* snapshot with id 2 at index 2, where id 3 had been assigned before.
PositionalIdsWitness ==
    /\ ret.op = "push_snapshot"
    /\ ret.at = <<1, 4>>
    /\ ret.id \in DOMAIN data
    /\ Last(data[ret.id].snapshots).id = 2
    /\ max_id[ret.id] = 3

----------------------------------------------------------------------------
(* View: claims. *)

\* C27: a view has at least one frame after any calls of extend,
\* extend_clone, shrink, slice, resize_frame and resize; shrink on a view
\* of one frame changes nothing; slice and resize with a frame count of 0
\* leave no view without frames.
NeverZeroFrames ==
    /\ [](view # None => Len(view[1].animation.frames) >= 1)
    /\ [][(view # None /\ ret'.op = "shrink" /\ Len(view[1].animation.frames) = 1) =>
             /\ view'[1].animation = view[1].animation
             /\ view'[1].state = view[1].state]_vars

\* C28: save_as(id, path) records id and sets Saved(path) exactly when the
\* status is NoFile, or New or Modified with that path, and otherwise
\* leaves status and saved snapshot alone; touch makes Saved(p) Modified(p)
\* and no call but save_as changes the saved snapshot; a view that is
\* Saved has a saved snapshot recorded.
SaveAsBookkeeping ==
    /\ [](view # None =>
             (view[1].file_status[1] = "Saved" => view[1].saved_snapshot # None))
    /\ [][(view # None /\ view' # None) =>
             LET v == view[1]
                 w == view'[1]
                 fs == v.file_status
             IN /\ ret'.op = "save_as" =>
                      IF \/ fs = NoFile
                         \/ (fs[1] \in {"New", "Modified"} /\ fs[2] = ret'.args[2])
                      THEN /\ w.file_status = Saved(ret'.args[2])
                           /\ w.saved_snapshot = Some(ret'.args[1])
                      ELSE /\ w.file_status = fs
                           /\ w.saved_snapshot = v.saved_snapshot
                /\ ret'.op = "touch" =>
                      /\ w.file_status = IF fs[1] = "Saved" THEN Modified(fs[2]) ELSE fs
                      /\ w.state = "Dirty"
                /\ ret'.op # "save_as" => w.saved_snapshot = v.saved_snapshot]_vars

\* C28 witness: a view saved to a.png at snapshot 1 and modified since was
\* asked to record snapshot 0 as saved to b.png, and did not.
SaveAsBookkeepingWitness ==
    /\ ret.op = "save_as"
    /\ ret.args = <<0, "b.png">>
    /\ view # None
    /\ view[1].file_status = Modified("a.png")
    /\ view[1].saved_snapshot = Some(1)

----------------------------------------------------------------------------
(* Brush: claims. *)

\* C25: with Multi set, for every stroke point that lies in a frame of the
\* extent, output has the shape of the corresponding point (same y, same
\* offset within its frame) in each of the nframes frames.
MultiAllFrames ==
    (/\ ret.op = "output"
     /\ Brush_is_set(brush, "Multi")
     /\ brush.state[1] # "NotDrawing") =>
        LET fw == brush.state[2].fw
            nframes == brush.state[2].nframes
            shapes == {ret.val[k] : k \in 1..Len(ret.val)}
        IN \A k \in 1..Len(brush.stroke) :
              LET p == brush.stroke[k]
              IN p.x \div fw < nframes =>
                    \A f \in 0..(nframes - 1) :
                       Brush_shape(brush, Point2((p.x % fw) + f * fw, p.y)) \in shapes

\* What every call of the brush but start_drawing does to the state:
\* update leaves DrawEnded for NotDrawing and clears the stroke, and is
\* without effect otherwise; draw and stop_drawing fail exactly in
\* NotDrawing and DrawEnded; draw keeps Drawing, stop_drawing ends it with
\* the same extent; the modes and output do not touch the state.
BrushStepRules ==
    LET s == brush.state
        t == brush'.state
        op == ret'.op
    IN /\ op = "update" =>
             IF s[1] = "DrawEnded"
             THEN t = NotDrawing /\ brush'.stroke = <<>>
             ELSE brush' = brush
       /\ op \in {"draw", "stop_drawing"} =>
             (ret'.panic <=> s[1] \in {"NotDrawing", "DrawEnded"})
       /\ (op = "draw" /\ s[1] = "Drawing") => t = s
       /\ (op = "stop_drawing" /\ s[1] = "Drawing") => t = DrawEnded(s[2])
       /\ op \in {"set", "unset", "reset", "output"} => t = s
       /\ (op # "start_drawing" /\ s[1] # "NotDrawing" /\ t[1] # "NotDrawing") => t[2] = s[2]

\* C26 as stated: the state changes only NotDrawing -> Drawing
\* (start_drawing), Drawing -> DrawEnded with the same extent
\* (stop_drawing) and DrawEnded -> NotDrawing (update), so that the extent
\* never changes once a stroke has begun.
BrushStateMachineClaimed ==
    /\ [](brush.state[1] # "DrawStarted")
    /\ [][/\ BrushStepRules
          /\ brush'.state # brush.state =>
                \/ brush.state = NotDrawing /\ brush'.state[1] = "Drawing"
                \/ brush.state[1] = "Drawing" /\ brush'.state = DrawEnded(brush.state[2])
                \/ brush.state[1] = "DrawEnded" /\ brush'.state = NotDrawing]_vars

\* C26: start_drawing(p, color, extent) leaves Drawing(extent) with the
\* stroke <<p>> from any state, DrawStarted is never seen between calls,
\* and every other call moves the state only Drawing -> Drawing (draw),
\* Drawing -> DrawEnded (stop_drawing), DrawEnded -> NotDrawing (update,
\* which clears the stroke and does nothing in any other state); draw and
\* stop_drawing fail in NotDrawing and DrawEnded; the extent changes only
\* in start_drawing.
BrushStateMachine ==
    /\ [](brush.state[1] # "DrawStarted")
    /\ [][/\ BrushStepRules
          /\ ret'.op = "start_drawing" =>
                /\ brush'.state = Drawing(ret'.args[3])
                /\ brush'.stroke = <<ret'.args[1]>>
                /\ ~ret'.panic]_vars

\* C26 witness: a stroke that was started, drawn from one point to another
\* and stopped has been cleared by update.
BrushStateMachineWitness ==
    /\ ret.op = "update"
    /\ brush.state = NotDrawing
    /\ brush.stroke = <<>>
    /\ brush.prev # brush.curr

----------------------------------------------------------------------------
(* ViewManager: claims. *)

\* C24: every id that add returns is at least 1, is greater than every id
\* add returned before, and is not the id of a view the manager holds at
\* the call, also when the 16-bit counter has reached its maximum.
MonotonicViewIds ==
    [][(ret'.op = "add" /\ ~ret'.panic) =>
          /\ ret'.val[2] >= 1
          /\ ret'.val[2] > issued
          /\ ret'.val[2] \notin DOMAIN mgr.views]_vars

\* C33: every id in the lru list is the id of a view the manager holds, the
\* list has at most MaxLru entries, remove of a view the manager holds does
\* not fail its assertion, and active_id is the id of a held view whenever
\* there is one and 0 only when there is none.
ActiveLruInvariant ==
    /\ [](/\ \A k \in 1..Len(mgr.lru) : mgr.lru[k] \in DOMAIN mgr.views
          /\ Len(mgr.lru) <= MaxLru
          /\ DOMAIN mgr.views # {} => mgr.active_id \in DOMAIN mgr.views
          /\ DOMAIN mgr.views = {} => mgr.active_id = 0)
    /\ [][(ret'.op = "remove" /\ ret'.args[2] \in DOMAIN mgr.views) => ~ret'.panic]_vars

----------------------------------------------------------------------------
(* Replay: what Stale stands for. *)

\* The last frame before the k-th whose outcome was not Stale, or 0.
LastChecked(k) ==
    LET J == {j \in 1..(k - 1) : outcomes[j][1] # "Stale"}
    IN IF J = {} THEN 0 ELSE CHOOSE j \in J : \A i \in J : i <= j

\* C32 as stated: a Stale(h) follows, as the last outcome that was not
\* Stale, an Okay(h); a frame rendered again unchanged after its Failure
\* or EOF is not Stale; the first frame is never Stale.
StaleMeansVerifiedClaimed ==
    /\ \A k \in 1..Len(outcomes) :
          outcomes[k][1] = "Stale" =>
             /\ LastChecked(k) # 0
             /\ outcomes[LastChecked(k)] = Okay(outcomes[k][2])
    /\ \A k \in 1..(Len(outcomes) - 1) :
          (outcomes[k][1] \in {"Failure", "EOF"} /\ replayed[k + 1] = replayed[k]) =>
             outcomes[k + 1][1] # "Stale"
    /\ (outcomes # <<>> => outcomes[1][1] # "Stale")

\* C32: a Stale(h) follows, as the last outcome that was not Stale, the
\* check of a frame with the hash h, whether that check returned Okay(h),
\* Failure(h, expected) or EOF; a frame rendered again unchanged after any
\* outcome is Stale; the first frame is never Stale.
StaleRepeatsLastCheck ==
    /\ \A k \in 1..Len(outcomes) :
          outcomes[k][1] = "Stale" =>
             /\ LastChecked(k) # 0
             /\ outcomes[k][2] = hash(replayed[k])
             /\ hash(replayed[LastChecked(k)]) = outcomes[k][2]
             /\ LET o == outcomes[LastChecked(k)]
                IN o[1] \in {"Okay", "Failure"} => o[2] = outcomes[k][2]
    /\ \A k \in 1..(Len(outcomes) - 1) :
          replayed[k + 1] = replayed[k] => outcomes[k + 1][1] = "Stale"
    /\ (outcomes # <<>> => outcomes[1][1] # "Stale")

\* C32 witness: a frame that failed was rendered again and was Stale, and a
\* later frame that met the end of the queue was rendered again and was Stale.
StaleRepeatsLastCheckWitness ==
    /\ Len(outcomes) = 4
    /\ outcomes[1][1] = "Failure"
    /\ outcomes[2] = Stale(outcomes[1][2])
    /\ outcomes[3] = EOF
    /\ outcomes[4] = Stale(hash(replayed[3]))

----------------------------------------------------------------------------
(* The saved-snapshot marker: claims. *)

\* C31: when is_snapshot_saved is true of the id of the current snapshot,
\* the current pixels are the ones that the last recorded save wrote.
SavedMarkerSound ==
    (/\ view # None
     /\ 1 \in DOMAIN data
     /\ View_is_snapshot_saved(view[1], current_snapshot(data[1]).val[1].id)) =>
        /\ disk # None
        /\ disk[1] = gif_image(data[1].pixels)

====
